---- MODULE Spec2Model ----
(***************************************************************************)
(* Verification model of the NFLSTATSAPP ingestion core:                   *)
(*   - src/ingestion/balldontlie_ingestor.py : _chunked, _valid_rows,      *)
(*     ingest_stats_and_advanced, and the dataset sequence of              *)
(*     run_ingest_v2.main                                            (Spec)*)
(*   - src/ingestion/balldontlie_client.py : RateLimiter.wait,             *)
(*     BallDontLieNFLClient._request and paginate   (SpecClient, SpecRL)   *)
(*   - src/ingestion/ingest_betting_and_extras.py : _get_best_props       *)
(*     (SpecProps) and the per-game props loops                 (SpecLoop) *)
(*   - src/ingestion/balldontlie_ingestor.py : the roster collapse of      *)
(*     ingest_rosters (SpecRoster), two runs of ingest_core    (SpecRerun) *)
(* Time is counted in centiseconds (0.5 s = 50, 0.11 s = 11).              *)
(***************************************************************************)
EXTENDS Integers, Sequences, FiniteSets, TLC

VARIABLES
    \* ---- ingestion run (run_ingest_v2.main / ingest_stats_and_advanced)
    run,            \* "running" | "returned" | "raised"
    exc,            \* kind of the exception that left main, "none" otherwise
    unit,           \* index in Units of the dataset being executed
    status,         \* per dataset: "NotStarted" | "Completed" | "Aborted"
    \* ---- player game stats pipeline: feed -> _valid_rows -> _chunked -> upsert
    rows_read,      \* rows pulled from the upstream iterator so far
    feed_done,      \* the upstream iterator is exhausted
    invalid,        \* _valid_rows: local counter `invalid`
    forwarded,      \* rows yielded by _valid_rows, in order
    buf,            \* _chunked: local list `buf`
    chunk,          \* batch yielded by _chunked, about to be upserted
    gpc,            \* "pull" | "upsert" | "end"
    upsert_calls,   \* batches passed to supabase.upsert("nfl_player_game_stats")
    store,          \* rows persisted in nfl_player_game_stats
    game_stats_upserted,
    \* ---- wall clock and RateLimiter (balldontlie_client.py)
    clock,          \* time.time(), in centiseconds
    _last_ts,       \* RateLimiter._last_ts
    rl_pc,          \* per caller, position in wait(): "idle" | "now" | "test" | "sleep" | "record" | "ret"
    rl_now,         \* per caller, wait(): local `now`
    rl_prev,        \* per caller, _last_ts as the call found it
    rl_slept,       \* per caller, whether the call went through self._sleep
    rl_ret,         \* per caller, clock when wait() returned
    rl_calls,       \* number of wait() calls that have returned
    \* ---- BallDontLieNFLClient._request / paginate and the consumer
    cpc,            \* "start" | "wait" | "handle" | "sleep" | "yield" | "done" | "failed"
    cursor,         \* paginate: local `cursor` (None or an int)
    p_cursor,       \* paginate: p["cursor"] of the request in progress (None: absent)
    attempt,        \* _request: loop variable `attempt`
    resp,           \* _request: the outcome of the last network call
    sleep_for,      \* _request: argument of the pending self._sleep
    payload,        \* paginate: the parsed payload of the current page
    pos,            \* paginate: index in data of the next row to yield
    error,          \* exception that left the generator: [type, status]
    pulling,        \* the consumer is inside next() on the generator
    stopped,        \* the consumer has abandoned the generator
    received,       \* records handed to the consumer, in order
    ncalls,         \* network calls issued by the current _request
    only_exc,       \* every network call of the current _request raised
    sent,           \* the cursor parameter of the latest network call
    nsleeps,        \* self._sleep calls made by the current _request
    last_call,      \* clock at the latest network call of the client (0: none yet)
    pages,          \* successful responses so far: [sent, next, data]
    \* ---- _get_best_props (ingest_betting_and_extras.py)
    props_list,     \* rows the loop has taken from props_list so far
    best_map,       \* local dict `best_map`, as its values in insertion order
    best_props,     \* the list _get_best_props returned
    bpc,            \* "loop" | "returned"
    \* ---- roster collapse of ingest_rosters
    roster_rows,    \* rows the collapse loop has taken from roster_rows so far
    seen_keys,      \* local dict `seen_keys`, as its values in insertion order
    dedupe_rows,    \* list(seen_keys.values())
    rpc,            \* "loop" | "collapsed"
    \* ---- two runs of ingest_core (teams)
    run_no,         \* 1 | 2
    fixture,        \* what bdl.list_teams() returns, the same in both runs
    teams_rows,     \* ingest_core: local `teams_rows`
    teams_store,    \* rows persisted in nfl_teams
    first_store,    \* nfl_teams as the first run left it
    rr_pc,          \* "fetch" | "upsert" | "done"
    \* ---- per-game props loops
    loop_fn,        \* the function that runs the loop ("none" before the call)
    n_games,        \* len(game_ids)
    game_out,       \* per game id processed so far: "ok" or the kind of its failure
    lpc,            \* "idle" | "running" | "ended" | "raised"
    loop_exc,       \* kind of the exception that left the loop
    \* ---- ingest_extras
    epc,            \* "games" | "team_stats" | "standings" | "props" | "odds" | "injuries" | "returned" | "raised"
    e_run,          \* which call of ingest_extras this is
    n_seasons,      \* len(seasons)
    season_ix,      \* position of `season` in seasons
    n_game_ids,     \* len(game_ids); the ids are 1..n_game_ids
    game_ix,        \* position of `gid` in game_ids
    e_counts,       \* the five *_upserted counters, as the returned dict
    props_log,      \* per pass of the props loop body in this call: [game, ids upserted]
    props_table,    \* rows persisted in nfl_player_props
    inj_done,       \* the injuries block of this call has ended
    \* ---- ingest_injuries
    ipc,            \* "idle" | "fetch" | "delete" | "upsert" | "returned" | "fetch_failed" | "upsert_failed"
    team_filter,    \* team_ids was given and is not empty
    inj_feed,       \* player ids of the records read from the feed so far (None: no player)
    all_rows,       \* ingest_injuries: local `all_rows`
    inj_store,      \* rows persisted in nfl_injuries
    \* ---- plays table
    plays,          \* rows of the plays table
    play_op,        \* the last statement run on plays and its outcome
    dup_report,     \* the last result of check_no_duplicate_plays
    \* ---- rows passed to upsert
    key_tbl,        \* table of the last upsert
    key_raw,        \* the upstream record it came from
    key_row,        \* the on_conflict columns of the row passed to upsert
    \* ---- cursors of one traversal
    pg_pc,          \* "request" | "meta" | "done"
    pg_cursor,      \* paginate: local `cursor`
    pg_next,        \* paginate: local `next_cursor` of the last response
    pg_requested    \* the cursor of every request sent so far, in order

ingestVars == <<run, exc, unit, status, rows_read, feed_done, invalid, forwarded,
                buf, chunk, gpc, upsert_calls, store, game_stats_upserted>>

rlVars == <<clock, _last_ts, rl_pc, rl_now, rl_prev, rl_slept, rl_ret, rl_calls>>

reqHist == <<ncalls, only_exc, sent, nsleeps, last_call>>

clientVars == <<cpc, cursor, p_cursor, attempt, resp, sleep_for, payload, pos,
                error, pulling, stopped, received, reqHist, pages>>

propsVars == <<props_list, best_map, best_props, bpc>>

rosterVars == <<roster_rows, seen_keys, dedupe_rows, rpc>>

rerunVars == <<run_no, fixture, teams_rows, teams_store, first_store, rr_pc>>

loopVars == <<loop_fn, n_games, game_out, lpc, loop_exc>>

extrasVars == <<epc, e_run, n_seasons, season_ix, n_game_ids, game_ix, e_counts,
                props_log, props_table, inj_done>>

injVars == <<ipc, team_filter, inj_feed, all_rows, inj_store>>

extVars == <<propsVars, rosterVars, rerunVars, loopVars, extrasVars>>

playVars == <<plays, play_op, dup_report>>

keyVars == <<key_tbl, key_raw, key_row>>

cursorVars == <<pg_pc, pg_cursor, pg_next, pg_requested>>

lateVars == <<injVars, playVars, keyVars, cursorVars>>

vars == <<ingestVars, rlVars, clientVars, extVars, lateVars>>

-----------------------------------------------------------------------------
\* Bounds of the model
MaxRows == 6            \* longest upstream feed of player game stats
abort_threshold == 1    \* invalid_abort_threshold passed to _valid_rows
batch_size == 2         \* batch_size passed to _chunked

MaxClock == 30          \* the environment lets time pass up to this reading
MaxTick == 4            \* longest single lapse of time between two steps
MaxWaits == 3           \* wait() calls per caller in the limiter's own runs

max_retries == 2        \* max_retries given to the client (3 by default)
MaxPages == 2           \* successful responses the upstream gives in one traversal
MaxPerPage == 2         \* most records in one page

MaxProps == 3           \* longest props feed given to _get_best_props
MaxRoster == 4          \* longest roster_rows given to the collapse
MaxGames == 4           \* most game ids given to a per-game props loop

MaxSeasons == 2         \* most seasons given to ingest_extras
MaxGameIds == 1         \* most game ids ingest_extras finds
MaxRuns == 2            \* calls of ingest_extras against one store

MaxInj == 3             \* longest injuries feed

MaxRequests == 6        \* requests of one traversal that are followed

MaxClock2 == 4          \* last clock reading from which time passes idly beside two callers

MaxPlayId == 3          \* play ids of one game

\* Python's None
None == -1

-----------------------------------------------------------------------------
\* Datasets in the order run_ingest_v2.main executes them.
Units == << "teams", "players", "games",
            "team_season_stats", "standings",
            "season_stats", "game_stats",
            "adv_receiving", "adv_rushing", "adv_passing",
            "full_stats", "injuries", "rosters", "active_players" >>

NUnits == Len(Units)

GameStatsUnit == CHOOSE i \in 1..NUnits : Units[i] = "game_stats"

\* Exceptions a dataset can end with: a classified API error, a transport
\* exception re-raised by _request, the validator's abort, a store write error.
ExcKinds == {"BallDontLieError", "TransportError", "ValueError", "StoreError"}

\* Faults that can arise inside a dataset.  Only datasets that stream through
\* _valid_rows can raise the validator's ValueError.
Faults(u) ==
    IF u \in {"game_stats", "adv_receiving", "adv_rushing", "adv_passing"}
    THEN ExcKinds
    ELSE ExcKinds \ {"ValueError"}

\* Exception kinds caught by the try/except that encloses the dataset.
\* main() has no try/except; ingest_stats_and_advanced wraps only the advanced
\* datasets, and only for BallDontLieError; ingest_full_stats and
\* ingest_active_players wrap their bodies in `except Exception`.
Catches(u) ==
    CASE u \in {"adv_receiving", "adv_rushing", "adv_passing"} -> {"BallDontLieError"}
      [] u \in {"full_stats", "active_players"} -> ExcKinds
      [] OTHER -> {}

-----------------------------------------------------------------------------
\* Rows of the player game stats feed after map_player_game_stats.
RawRow(i, p, g) == [id |-> i, player_id |-> p, game_id |-> g]

\* The i-th row of a feed: each required field is present or None.
RowChoices(i) == { RawRow(i, p, g) : p \in {None, i}, g \in {None, 1} }

required_fields == {"player_id", "game_id"}

\* any(mapped.get(f) is None for f in required_fields)
MissingRequired_first_only(row) == row.player_id = None

MissingRequired(row) == \E f \in required_fields : row[f] = None

\* One iteration of the loop of _valid_rows on row `row` with counter `inv`:
\* the new counter and what the generator does ("yield", "skip" or "raise").
_valid_rows_step_eager(inv, row) ==
    IF MissingRequired(row)
    THEN [invalid |-> inv + 1,
          out |-> IF inv + 1 >= abort_threshold THEN "raise" ELSE "skip"]
    ELSE [invalid |-> inv, out |-> "yield"]

_valid_rows_step_never(inv, row) ==
    IF MissingRequired(row)
    THEN [invalid |-> inv + 1, out |-> "skip"]
    ELSE [invalid |-> inv, out |-> "yield"]

_valid_rows_step(inv, row) ==
    IF MissingRequired(row)
    THEN [invalid |-> inv + 1,
          out |-> IF inv + 1 > abort_threshold THEN "raise" ELSE "skip"]
    ELSE [invalid |-> inv, out |-> "yield"]

\* yield mapped: the consumer receives the row after those it already has.
yield_mapped_front(fw, mapped) == <<mapped>> \o fw

yield_mapped(fw, mapped) == Append(fw, mapped)

\* One iteration of the loop of _chunked: append, and yield when full.
_chunked_step_over(b, it) ==
    LET nb == Append(b, it)
    IN  IF Len(nb) > batch_size
        THEN [buf |-> <<>>, yielded |-> nb]
        ELSE [buf |-> nb, yielded |-> <<>>]

_chunked_step(b, it) ==
    LET nb == Append(b, it)
    IN  IF Len(nb) >= batch_size
        THEN [buf |-> <<>>, yielded |-> nb]
        ELSE [buf |-> nb, yielded |-> <<>>]

SeqToSet(s) == { s[i] : i \in 1..Len(s) }

\* supabase.upsert(table, rows, on_conflict="player_id,game_id")
UpsertRows(st, rows) ==
    LET new == SeqToSet(rows)
        SameKey(a, b) == a.player_id = b.player_id /\ a.game_id = b.game_id
    IN  { r \in st : ~ \E n \in new : SameKey(r, n) } \cup new

-----------------------------------------------------------------------------
IngestInit ==
    /\ run = "running"
    /\ exc = "none"
    /\ unit = 1
    /\ status = [i \in 1..NUnits |-> "NotStarted"]
    /\ rows_read = <<>>
    /\ feed_done = FALSE
    /\ invalid = 0
    /\ forwarded = <<>>
    /\ buf = <<>>
    /\ chunk = <<>>
    /\ gpc = "pull"
    /\ upsert_calls = <<>>
    /\ store = {}
    /\ game_stats_upserted = 0

pipeVars == <<rows_read, feed_done, invalid, forwarded, buf, chunk, gpc,
              upsert_calls, store, game_stats_upserted>>

\* An exception of kind k leaves dataset i: caught by the enclosing handler
\* (dataset skipped, next dataset runs) or propagated out of main.
Propagate(i, k) ==
    /\ status' = [status EXCEPT ![i] = "Aborted"]
    /\ IF k \in Catches(Units[i])
       THEN /\ unit' = i + 1
            /\ UNCHANGED <<run, exc>>
       ELSE /\ run' = "raised"
            /\ exc' = k
            /\ UNCHANGED unit

\* A dataset other than player game stats runs to its end, or faults.
UnitOk ==
    /\ run = "running"
    /\ unit <= NUnits
    /\ unit # GameStatsUnit
    /\ status' = [status EXCEPT ![unit] = "Completed"]
    /\ unit' = unit + 1
    /\ UNCHANGED <<run, exc, pipeVars>>
    /\ UNCHANGED <<rlVars, clientVars, extVars, lateVars>>

UnitFault ==
    /\ run = "running"
    /\ unit <= NUnits
    /\ unit # GameStatsUnit
    /\ \E k \in Faults(Units[unit]) : Propagate(unit, k)
    /\ UNCHANGED pipeVars
    /\ UNCHANGED <<rlVars, clientVars, extVars, lateVars>>

InGameStats == run = "running" /\ unit = GameStatsUnit

\* _chunked pulls the next row through _valid_rows from the upstream iterator.
ReadRow ==
    /\ InGameStats
    /\ gpc = "pull"
    /\ ~feed_done
    /\ Len(rows_read) < MaxRows
    /\ \E row \in RowChoices(Len(rows_read) + 1) :
         LET v == _valid_rows_step(invalid, row)
             c == _chunked_step(buf, row)
         IN  /\ rows_read' = Append(rows_read, row)
             /\ invalid' = v.invalid
             /\ CASE v.out = "raise" ->
                      \* ValueError unwinds _valid_rows and _chunked
                      /\ Propagate(unit, "ValueError")
                      /\ buf' = <<>>
                      /\ UNCHANGED <<forwarded, chunk, gpc>>
                  [] v.out = "skip" ->
                      /\ UNCHANGED <<forwarded, buf, chunk, gpc,
                                     run, exc, unit, status>>
                  [] v.out = "yield" ->
                      /\ forwarded' = yield_mapped(forwarded, row)
                      /\ buf' = c.buf
                      /\ chunk' = c.yielded
                      /\ gpc' = IF c.yielded # <<>> THEN "upsert" ELSE "pull"
                      /\ UNCHANGED <<run, exc, unit, status>>
    /\ UNCHANGED <<feed_done, upsert_calls, store, game_stats_upserted>>
    /\ UNCHANGED <<rlVars, clientVars, extVars, lateVars>>

\* The upstream iterator is exhausted: _valid_rows returns, _chunked yields
\* the rest of buf if there is one.
FeedEnd ==
    /\ InGameStats
    /\ gpc = "pull"
    /\ ~feed_done
    /\ feed_done' = TRUE
    /\ IF buf # <<>>
       THEN /\ chunk' = buf
            /\ buf' = <<>>
            /\ gpc' = "upsert"
       ELSE /\ gpc' = "end"
            /\ UNCHANGED <<chunk, buf>>
    /\ UNCHANGED <<run, exc, unit, status, rows_read, invalid, forwarded,
                   upsert_calls, store, game_stats_upserted>>
    /\ UNCHANGED <<rlVars, clientVars, extVars, lateVars>>

\* The upstream iterator raises while the next row is pulled.
FeedFail ==
    /\ InGameStats
    /\ gpc = "pull"
    /\ ~feed_done
    /\ \E k \in {"BallDontLieError", "TransportError"} : Propagate(unit, k)
    /\ buf' = <<>>
    /\ UNCHANGED <<rows_read, feed_done, invalid, forwarded, chunk, gpc,
                   upsert_calls, store, game_stats_upserted>>
    /\ UNCHANGED <<rlVars, clientVars, extVars, lateVars>>

\* game_stats_upserted += supabase.upsert("nfl_player_game_stats", chunk, ...)
Upsert ==
    /\ InGameStats
    /\ gpc = "upsert"
    /\ upsert_calls' = Append(upsert_calls, chunk)
    /\ store' = UpsertRows(store, chunk)
    /\ game_stats_upserted' = game_stats_upserted + Len(chunk)
    /\ chunk' = <<>>
    /\ gpc' = IF feed_done THEN "end" ELSE "pull"
    /\ UNCHANGED <<run, exc, unit, status, rows_read, feed_done, invalid,
                   forwarded, buf>>
    /\ UNCHANGED <<rlVars, clientVars, extVars, lateVars>>

\* The store rejects the batch: the error leaves the for loop.
UpsertFail ==
    /\ InGameStats
    /\ gpc = "upsert"
    /\ Propagate(unit, "StoreError")
    /\ buf' = <<>>
    /\ UNCHANGED <<rows_read, feed_done, invalid, forwarded, chunk, gpc,
                   upsert_calls, store, game_stats_upserted>>
    /\ UNCHANGED <<rlVars, clientVars, extVars, lateVars>>

\* The for loop over the chunks ends normally.
GameStatsDone ==
    /\ InGameStats
    /\ gpc = "end"
    /\ status' = [status EXCEPT ![unit] = "Completed"]
    /\ unit' = unit + 1
    /\ UNCHANGED <<run, exc, pipeVars>>
    /\ UNCHANGED <<rlVars, clientVars, extVars, lateVars>>

\* main() returns after the last dataset.
MainReturn ==
    /\ run = "running"
    /\ unit = NUnits + 1
    /\ run' = "returned"
    /\ UNCHANGED <<exc, unit, status, pipeVars>>
    /\ UNCHANGED <<rlVars, clientVars, extVars, lateVars>>

IngestNext ==
    \/ UnitOk
    \/ UnitFault
    \/ ReadRow
    \/ FeedEnd
    \/ FeedFail
    \/ Upsert
    \/ UpsertFail
    \/ GameStatsDone
    \/ MainReturn

-----------------------------------------------------------------------------
\* Properties of the validator and the player game stats pipeline

\* Number of rows of s that lack a required field (N of the feed read so far).
NInvalid(s) == Cardinality({ i \in 1..Len(s) : MissingRequired(s[i]) })

\* The rows of s that have every required field, in order.
ValidSub(s) == SelectSeq(s, LAMBDA r : ~MissingRequired(r))

RECURSIVE Flatten(_)
Flatten(ss) == IF ss = <<>> THEN <<>> ELSE Head(ss) \o Flatten(Tail(ss))

ValidatorAborted == status[GameStatsUnit] = "Aborted" /\ exc = "ValueError"

\* C1: for the M rows read of which N lack a required field, _valid_rows has
\* raised its abort error if and only if N > abort_threshold, the raise
\* happens on reading the (abort_threshold+1)-th invalid row and not before,
\* and while N <= abort_threshold exactly the M-N valid rows were forwarded;
\* a feed that ends with N <= abort_threshold ends normally.
C1_AbortThreshold ==
    LET M == Len(rows_read)
        N == NInvalid(rows_read)
    IN  /\ ValidatorAborted <=> N > abort_threshold
        /\ ValidatorAborted =>
              /\ N = abort_threshold + 1
              /\ MissingRequired(rows_read[M])
        /\ N <= abort_threshold =>
              /\ forwarded = ValidSub(rows_read)
              /\ Len(forwarded) = M - N
        /\ feed_done => (N <= abort_threshold /\ ~ValidatorAborted)

\* C1 witness: the abort happened after several rows were read, some valid.
C1_Witness ==
    /\ ValidatorAborted
    /\ Len(rows_read) > abort_threshold + 1
    /\ Len(forwarded) > 0

\* C1 second case: a feed with tolerated invalid rows ended normally.
C1_WitnessNormalEnd ==
    /\ feed_done
    /\ NInvalid(rows_read) = abort_threshold
    /\ Len(forwarded) > 0

\* The rows of the complete batches among the forwarded rows.
FullBatchRows ==
    SubSeq(forwarded, 1, (Len(forwarded) \div batch_size) * batch_size)

\* C2: once the rejected count exceeds abort_threshold the dataset is
\* aborted, no further upsert call is made and the store no longer changes;
\* what is persisted is exactly the batches flushed before the abort, and the
\* valid rows of the incomplete batch are not written.
C2_FailFast ==
    /\ [](invalid > abort_threshold =>
            /\ status[GameStatsUnit] = "Aborted"
            /\ Flatten(upsert_calls) = FullBatchRows
            /\ store = SeqToSet(FullBatchRows)
            /\ \A i \in (Len(FullBatchRows) + 1)..Len(forwarded) :
                  forwarded[i] \notin store)
    /\ [][invalid' > abort_threshold =>
            (upsert_calls' = upsert_calls /\ store' = store)]_vars

\* C2 witness: the abort came after a flushed batch, with a valid row still
\* buffered in an incomplete batch.
C2_Witness ==
    /\ invalid > abort_threshold
    /\ upsert_calls # <<>>
    /\ Len(forwarded) > Len(FullBatchRows)

\* C3: when a dataset ends Aborted (validator abort, fetch or write failure),
\* every dataset scheduled after it in the run is still executed: at the end
\* of the run no dataset after an aborted one is left NotStarted.
C3_SiblingsStillRun ==
    run \in {"returned", "raised"} =>
        \A i \in 1..NUnits : \A j \in 1..NUnits :
            (status[i] = "Aborted" /\ j > i) => status[j] # "NotStarted"


-----------------------------------------------------------------------------
\* RateLimiter (balldontlie_client.py)

\* min_interval_seconds of the limiter a client builds: 0.11 s
min_interval_seconds == 11

Callers == {1, 2}

RLInit ==
    /\ clock = 1
    /\ _last_ts = 0
    /\ rl_pc = [c \in Callers |-> "idle"]
    /\ rl_now = [c \in Callers |-> 0]
    /\ rl_prev = [c \in Callers |-> 0]
    /\ rl_slept = [c \in Callers |-> FALSE]
    /\ rl_ret = [c \in Callers |-> 0]
    /\ rl_calls = 0

\* remaining = self.min_interval_seconds - (now - self._last_ts)
remaining_short(now, last) == (min_interval_seconds - 1) - (now - last)

remaining(now, last) == min_interval_seconds - (now - last)

\* self._sleep(seconds): returns once at least `seconds` have passed.
SleepEnds(d) ==
    {clock + d} \cup (IF clock + d < MaxClock THEN {clock + d + 1} ELSE {})

\* a caller enters wait()
wait_enter(c) ==
    /\ rl_pc[c] \in {"idle", "ret"}
    /\ rl_pc' = [rl_pc EXCEPT ![c] = "now"]
    /\ rl_slept' = [rl_slept EXCEPT ![c] = FALSE]
    /\ UNCHANGED <<clock, _last_ts, rl_now, rl_prev, rl_ret, rl_calls>>

\* now = time.time()
wait_now(c) ==
    /\ rl_pc[c] = "now"
    /\ rl_now' = [rl_now EXCEPT ![c] = clock]
    /\ rl_pc' = [rl_pc EXCEPT ![c] = "test"]
    /\ UNCHANGED <<clock, _last_ts, rl_prev, rl_slept, rl_ret, rl_calls>>

\* the test of `remaining > 0` never sending the caller to sleep
wait_test_no_sleep(c) ==
    /\ rl_pc[c] = "test"
    /\ rl_prev' = [rl_prev EXCEPT ![c] = _last_ts]
    /\ IF _last_ts <= 0
       THEN /\ _last_ts' = rl_now[c]
            /\ rl_pc' = [rl_pc EXCEPT ![c] = "ret"]
            /\ rl_ret' = [rl_ret EXCEPT ![c] = clock]
            /\ rl_calls' = rl_calls + 1
       ELSE /\ rl_pc' = [rl_pc EXCEPT ![c] = "record"]
            /\ UNCHANGED <<_last_ts, rl_ret, rl_calls>>
    /\ UNCHANGED <<clock, rl_now, rl_slept>>

\* if self._last_ts <= 0: self._last_ts = now; return
\* otherwise compute remaining and decide whether to sleep
wait_test(c) ==
    /\ rl_pc[c] = "test"
    /\ rl_prev' = [rl_prev EXCEPT ![c] = _last_ts]
    /\ IF _last_ts <= 0
       THEN /\ _last_ts' = rl_now[c]
            /\ rl_pc' = [rl_pc EXCEPT ![c] = "ret"]
            /\ rl_ret' = [rl_ret EXCEPT ![c] = clock]
            /\ rl_calls' = rl_calls + 1
       ELSE /\ rl_pc' = [rl_pc EXCEPT ![c] =
                  IF remaining(rl_now[c], _last_ts) > 0 THEN "sleep" ELSE "record"]
            /\ UNCHANGED <<_last_ts, rl_ret, rl_calls>>
    /\ UNCHANGED <<clock, rl_now, rl_slept>>

\* self._sleep(remaining) returning at once
wait_sleep_skipped(c) ==
    /\ rl_pc[c] = "sleep"
    /\ rl_slept' = [rl_slept EXCEPT ![c] = TRUE]
    /\ rl_pc' = [rl_pc EXCEPT ![c] = "record"]
    /\ UNCHANGED <<clock, _last_ts, rl_now, rl_prev, rl_ret, rl_calls>>

\* self._sleep(remaining)
wait_sleep(c) ==
    /\ rl_pc[c] = "sleep"
    /\ clock' \in SleepEnds(remaining(rl_now[c], rl_prev[c]))
    /\ rl_slept' = [rl_slept EXCEPT ![c] = TRUE]
    /\ rl_pc' = [rl_pc EXCEPT ![c] = "record"]
    /\ UNCHANGED <<_last_ts, rl_now, rl_prev, rl_ret, rl_calls>>

\* self._last_ts = time.time()
wait_record(c) ==
    /\ rl_pc[c] = "record"
    /\ _last_ts' = clock
    /\ rl_pc' = [rl_pc EXCEPT ![c] = "ret"]
    /\ rl_ret' = [rl_ret EXCEPT ![c] = clock]
    /\ rl_calls' = rl_calls + 1
    /\ UNCHANGED <<clock, rl_now, rl_prev, rl_slept>>

\* Time passes between two steps of the program.
Tick ==
    /\ clock < MaxClock
    /\ \E d \in 1..MaxTick : clock' = clock + d
    /\ UNCHANGED <<_last_ts, rl_pc, rl_now, rl_prev, rl_slept, rl_ret, rl_calls>>

\* The limiter driven by a single caller.
RLCall ==
    /\ rl_calls < MaxWaits
    /\ wait_enter(1)
    /\ UNCHANGED <<ingestVars, clientVars, extVars, lateVars>>

RLNow == wait_now(1) /\ UNCHANGED <<ingestVars, clientVars, extVars, lateVars>>

RLTest == wait_test(1) /\ UNCHANGED <<ingestVars, clientVars, extVars, lateVars>>

RLSleep == wait_sleep(1) /\ UNCHANGED <<ingestVars, clientVars, extVars, lateVars>>

RLRecord == wait_record(1) /\ UNCHANGED <<ingestVars, clientVars, extVars, lateVars>>

RLTick == Tick /\ UNCHANGED <<ingestVars, clientVars, extVars, lateVars>>

NextRL ==
    \/ RLCall
    \/ RLNow
    \/ RLTest
    \/ RLSleep
    \/ RLRecord
    \/ RLTick

\* C10: with a single caller and positive clock readings, the first wait()
\* returns without sleeping; every later wait() returns no earlier than
\* min_interval_seconds after the timestamp the previous call recorded; each
\* call records a new timestamp, read during the call.
C10_WaitSpacing ==
    rl_pc[1] = "ret" =>
        /\ rl_calls = 1 => (~rl_slept[1] /\ rl_prev[1] = 0)
        /\ rl_calls > 1 =>
              /\ rl_prev[1] > 0
              /\ rl_ret[1] >= rl_prev[1] + min_interval_seconds
        /\ _last_ts > 0
        /\ rl_now[1] <= _last_ts
        /\ _last_ts <= rl_ret[1]

\* C10 witness: a later call that had to sleep has returned.
C10_Witness ==
    /\ rl_pc[1] = "ret"
    /\ rl_calls > 1
    /\ rl_slept[1]

\* C10 second case: a later call found the interval already elapsed.
C10_WitnessNoSleep ==
    /\ rl_pc[1] = "ret"
    /\ rl_calls > 1
    /\ ~rl_slept[1]



-----------------------------------------------------------------------------
\* BallDontLieNFLClient._request and paginate (balldontlie_client.py)

\* backoff = 0.5
backoff == 50

\* JSON values of meta.next_cursor: absent/null, a number, a numeric string.
JNull == [t |-> "null", v |-> 0]
JInt(n) == [t |-> "int", v |-> n]
JStr(n) == [t |-> "str", v |-> n]

\* next_cursor values the upstream hands out (record ids, hence positive).
CursorTokens == {JStr(7), JInt(8)}

\* `not next_cursor` is False
Truthy(j) == ~(j.t = "null" \/ (j.t = "int" /\ j.v = 0))

\* int(next_cursor)
PyInt_off(j) == j.v + 1

PyInt(j) == j.v

\* Retry-After header values (seconds) the upstream sends with a 429.
RetryAfterHeaders == {1}

\* float(header) seconds, in centiseconds
PyFloat(h) == 100 * h

\* HTTP status codes the upstream answers with.
ErrorStatuses == {404, 500}

\* resp.ok
Ok(st) == st < 400

\* The k-th successful response carries n records, identified by <<k, j>>.
PageData(k, n) == [j \in 1..n |-> <<k, j>>]

NoResp == [kind |-> "none", status |-> None, retry_after |-> None,
           n |-> 0, next |-> JNull]

\* What one network call can come back with.
Responses ==
    {[kind |-> "exc", status |-> None, retry_after |-> None, n |-> 0, next |-> JNull]}
    \cup {[kind |-> "http", status |-> 429, retry_after |-> h, n |-> 0, next |-> JNull] :
             h \in RetryAfterHeaders \cup {None}}
    \cup {[kind |-> "http", status |-> st, retry_after |-> None, n |-> 0, next |-> JNull] :
             st \in ErrorStatuses}
    \cup {[kind |-> "http", status |-> 200, retry_after |-> None, n |-> n, next |-> nx] :
             n \in 0..MaxPerPage,
             nx \in IF Len(pages) + 1 < MaxPages THEN CursorTokens \cup {JNull}
                    ELSE {JNull}}

NoError == [type |-> "none", status |-> None]

ClientInit ==
    /\ cpc = "start"
    /\ cursor = None
    /\ p_cursor = None
    /\ attempt = 0
    /\ resp = NoResp
    /\ sleep_for = 0
    /\ payload = [data |-> <<>>, next |-> JNull]
    /\ pos = 1
    /\ error = NoError
    /\ pulling = FALSE
    /\ stopped = FALSE
    /\ received = <<>>
    /\ ncalls = 0
    /\ only_exc = TRUE
    /\ sent = None
    /\ nsleeps = 0
    /\ last_call = 0
    /\ pages = <<>>

\* float(resp.headers.get("Retry-After", backoff))
retry_after_sleep_fixed(r) == backoff

retry_after_sleep(r) ==
    IF r.retry_after = None THEN backoff ELSE PyFloat(r.retry_after)

\* What _request does with the outcome r of the network call of attempt att:
\* re-raise or raise, sleep and go round the loop, or return the payload.
on_response_retry5xx(att, r) ==
    IF r.kind = "exc"
    THEN IF att >= max_retries
         THEN [act |-> "raise", type |-> "TransportError", status |-> None, sleep |-> 0]
         ELSE [act |-> "sleep", type |-> "none", status |-> None, sleep |-> backoff]
    ELSE IF r.status = 429 \/ r.status >= 500
         THEN [act |-> "sleep", type |-> "none", status |-> None,
               sleep |-> retry_after_sleep(r)]
         ELSE IF ~Ok(r.status)
              THEN [act |-> "raise", type |-> "BallDontLieError",
                    status |-> r.status, sleep |-> 0]
              ELSE [act |-> "return", type |-> "none", status |-> None, sleep |-> 0]

on_response(att, r) ==
    IF r.kind = "exc"
    THEN IF att >= max_retries
         THEN [act |-> "raise", type |-> "TransportError", status |-> None, sleep |-> 0]
         ELSE [act |-> "sleep", type |-> "none", status |-> None, sleep |-> backoff]
    ELSE IF r.status = 429
         THEN [act |-> "sleep", type |-> "none", status |-> None,
               sleep |-> retry_after_sleep(r)]
         ELSE IF ~Ok(r.status)
              THEN [act |-> "raise", type |-> "BallDontLieError",
                    status |-> r.status, sleep |-> 0]
              ELSE [act |-> "return", type |-> "none", status |-> None, sleep |-> 0]

\* for attempt in range(self._max_retries + 1): is there another iteration?
in_range_unbounded(att) == TRUE

in_range(att) == att < max_retries + 1

\* A generator runs only while the consumer is inside next().
Resumed_eager == ~(cpc \in {"done", "failed"})

Resumed == pulling

Finished == cpc \in {"done", "failed"}

\* The consumer asks for the next record.
Pull ==
    /\ ~pulling
    /\ ~stopped
    /\ ~Finished
    /\ pulling' = TRUE
    /\ UNCHANGED <<cpc, cursor, p_cursor, attempt, resp, sleep_for, payload, pos,
                   error, stopped, received, reqHist, pages>>
    /\ UNCHANGED <<rlVars, ingestVars, extVars, lateVars>>

\* The consumer stops pulling and drops the generator.
Abandon ==
    /\ ~pulling
    /\ ~stopped
    /\ ~Finished
    /\ stopped' = TRUE
    /\ UNCHANGED <<cpc, cursor, p_cursor, attempt, resp, sleep_for, payload, pos,
                   error, pulling, received, reqHist, pages>>
    /\ UNCHANGED <<rlVars, ingestVars, extVars, lateVars>>

\* Top of the while loop of paginate: build p, enter _request and its first
\* self._rl.wait().
BuildRequest ==
    /\ Resumed
    /\ cpc = "start"
    /\ p_cursor' = cursor
    /\ attempt' = 0
    /\ ncalls' = 0
    /\ only_exc' = TRUE
    /\ nsleeps' = 0
    /\ sleep_for' = 0
    /\ cpc' = "wait"
    /\ wait_enter(1)
    /\ UNCHANGED <<cursor, resp, payload, pos, error, pulling, stopped,
                   received, sent, last_call, pages>>
    /\ UNCHANGED <<ingestVars, extVars, lateVars>>

InWait == Resumed /\ cpc = "wait"

ClientWaitNow == InWait /\ wait_now(1) /\ UNCHANGED <<ingestVars, clientVars, extVars, lateVars>>

ClientWaitTest == InWait /\ wait_test(1) /\ UNCHANGED <<ingestVars, clientVars, extVars, lateVars>>

ClientWaitSleep == InWait /\ wait_sleep(1) /\ UNCHANGED <<ingestVars, clientVars, extVars, lateVars>>

ClientWaitRecord == InWait /\ wait_record(1) /\ UNCHANGED <<ingestVars, clientVars, extVars, lateVars>>

\* self._session.request(...): one network call with the params p.
Call ==
    /\ InWait
    /\ rl_pc[1] = "ret"
    /\ \E r \in Responses :
          /\ resp' = r
          /\ only_exc' = (only_exc /\ r.kind = "exc")
    /\ ncalls' = ncalls + 1
    /\ sent' = p_cursor
    /\ last_call' = clock
    /\ cpc' = "handle"
    /\ rl_pc' = [rl_pc EXCEPT ![1] = "idle"]
    /\ UNCHANGED <<clock, _last_ts, rl_now, rl_prev, rl_slept, rl_ret, rl_calls>>
    /\ UNCHANGED <<cursor, p_cursor, attempt, sleep_for, payload, pos, error,
                   pulling, stopped, received, nsleeps, pages>>
    /\ UNCHANGED <<ingestVars, extVars, lateVars>>

\* The except clause and the status tests of _request.
Handle ==
    /\ Resumed
    /\ cpc = "handle"
    /\ LET d == on_response(attempt, resp)
       IN  CASE d.act = "raise" ->
                  /\ cpc' = "failed"
                  /\ error' = [type |-> d.type, status |-> d.status]
                  /\ pulling' = FALSE
                  /\ UNCHANGED <<sleep_for, payload, pos, pages>>
             [] d.act = "sleep" ->
                  /\ cpc' = "sleep"
                  /\ sleep_for' = d.sleep
                  /\ UNCHANGED <<error, pulling, payload, pos, pages>>
             [] d.act = "return" ->
                  /\ cpc' = "yield"
                  /\ payload' = [data |-> PageData(Len(pages) + 1, resp.n),
                                 next |-> resp.next]
                  /\ pos' = 1
                  /\ pages' = Append(pages,
                        [sent |-> p_cursor, next |-> resp.next,
                         data |-> PageData(Len(pages) + 1, resp.n)])
                  /\ UNCHANGED <<error, pulling, sleep_for>>
    /\ UNCHANGED <<cursor, p_cursor, attempt, resp, stopped, received, reqHist>>
    /\ UNCHANGED <<rlVars, ingestVars, extVars, lateVars>>

\* self._sleep(...); continue -- the next iteration starts with
\* self._rl.wait(), or the loop is exhausted and line 96 raises.
Backoff ==
    /\ Resumed
    /\ cpc = "sleep"
    /\ clock' \in SleepEnds(sleep_for)
    /\ nsleeps' = nsleeps + 1
    /\ attempt' = attempt + 1
    /\ IF in_range(attempt + 1)
       THEN /\ cpc' = "wait"
            /\ rl_pc' = [rl_pc EXCEPT ![1] = "now"]
            /\ rl_slept' = [rl_slept EXCEPT ![1] = FALSE]
            /\ UNCHANGED <<error, pulling>>
       ELSE /\ cpc' = "failed"
            /\ error' = [type |-> "BallDontLieError", status |-> None]
            /\ pulling' = FALSE
            /\ UNCHANGED <<rl_pc, rl_slept>>
    /\ UNCHANGED <<_last_ts, rl_now, rl_prev, rl_ret, rl_calls>>
    /\ UNCHANGED <<cursor, p_cursor, resp, sleep_for, payload, pos, stopped,
                   received, ncalls, only_exc, sent, last_call, pages>>
    /\ UNCHANGED <<ingestVars, extVars, lateVars>>

\* for row in data: yield row
YieldRow ==
    /\ Resumed
    /\ cpc = "yield"
    /\ pos <= Len(payload.data)
    /\ received' = Append(received, payload.data[pos])
    /\ pos' = pos + 1
    /\ pulling' = FALSE
    /\ UNCHANGED <<cpc, cursor, p_cursor, attempt, resp, sleep_for, payload,
                   error, stopped, reqHist, pages>>
    /\ UNCHANGED <<rlVars, ingestVars, extVars, lateVars>>

\* After the last row: read meta.next_cursor, stop or advance the cursor.
PageEnd ==
    /\ Resumed
    /\ cpc = "yield"
    /\ pos > Len(payload.data)
    /\ IF ~Truthy(payload.next)
       THEN /\ cpc' = "done"
            /\ pulling' = FALSE
            /\ UNCHANGED cursor
       ELSE /\ cursor' = PyInt(payload.next)
            /\ cpc' = "start"
            /\ UNCHANGED pulling
    /\ UNCHANGED <<p_cursor, attempt, resp, sleep_for, payload, pos, error,
                   stopped, received, reqHist, pages>>
    /\ UNCHANGED <<rlVars, ingestVars, extVars, lateVars>>

NextClient ==
    \/ Pull
    \/ Abandon
    \/ BuildRequest
    \/ ClientWaitNow
    \/ ClientWaitTest
    \/ ClientWaitSleep
    \/ ClientWaitRecord
    \/ Call
    \/ Handle
    \/ Backoff
    \/ YieldRow
    \/ PageEnd



-----------------------------------------------------------------------------
\* Properties of _request and paginate

\* The records of all successful responses, in page order.
RECURSIVE FlattenData(_)
FlattenData(ps) ==
    IF ps = <<>> THEN <<>> ELSE Head(ps).data \o FlattenData(Tail(ps))

\* C4: one _request issues at most max_retries + 1 network calls whatever the
\* mix of transport failures and 429 responses: a further attempt is entered
\* only while at most max_retries calls were made, and the request then ends
\* with a parsed payload or a raised error.
C4_BoundedCalls ==
    /\ ncalls <= max_retries + 1
    /\ cpc = "wait" => (ncalls = attempt /\ ncalls <= max_retries)
    /\ cpc \in {"handle", "sleep"} => ncalls = attempt + 1
    /\ cpc = "failed" => error.type # "none"
    /\ cpc = "yield" => (resp.kind = "http" /\ Ok(resp.status))

\* C4 witness: a request whose last call was answered 429 gave up after
\* max_retries + 1 calls, each followed by a sleep.
C4_Witness ==
    /\ cpc = "failed"
    /\ ncalls = max_retries + 1
    /\ nsleeps = max_retries + 1
    /\ resp.status = 429
    /\ error.type = "BallDontLieError"

\* C5: when every attempt of a page fetch fails at transport level, the
\* client has made max_retries retries with the backoff sleep between them
\* and fails the fetch with BallDontLieError.
C5_TransportExhausted ==
    (cpc = "failed" /\ only_exc /\ resp.kind = "exc") =>
        /\ ncalls = max_retries + 1
        /\ nsleeps = max_retries
        /\ sleep_for = backoff
        /\ error.type = "BallDontLieError"

C7_NoRetryOnError ==
    /\ [][(cpc = "handle" /\ resp.kind = "http" /\ resp.status # 429
              /\ ~(resp.status < 400)) =>
            /\ cpc' = "failed"
            /\ error' = [type |-> "BallDontLieError", status |-> resp.status]
            /\ UNCHANGED <<clock, ncalls, nsleeps>>]_vars
    /\ [][cpc = "failed" => UNCHANGED <<clock, ncalls, nsleeps, cpc, error>>]_vars

\* C7 witness: a 500 answer to the first call failed the fetch after that
\* single call.
C7_Witness ==
    /\ cpc = "failed"
    /\ error = [type |-> "BallDontLieError", status |-> 500]
    /\ ncalls = 1
    /\ nsleeps = 0

\* C8: the consumer receives every record of every page exactly once, in page
\* order and within-page order; the first request carries no cursor, each
\* later one the next_cursor of the response before it, and the traversal
\* ends at the first response without next_cursor.
C8_PaginateOrder ==
    LET k == Len(pages)
        done_part == IF k = 0 THEN <<>>
                     ELSE FlattenData(SubSeq(pages, 1, k - 1))
                          \o SubSeq(pages[k].data, 1, pos - 1)
    IN  /\ received = done_part
        /\ \A i \in 1..Len(received) : \A j \in 1..Len(received) :
              received[i] = received[j] => i = j
        /\ k >= 1 => pages[1].sent = None
        /\ \A i \in 1..(k - 1) :
              /\ pages[i].next # JNull
              /\ pages[i + 1].sent = pages[i].next.v
        /\ cpc = "done" =>
              /\ k >= 1
              /\ pages[k].next = JNull
              /\ received = FlattenData(pages)
        /\ (k >= 1 /\ pages[k].next = JNull) => cpc \in {"yield", "done"}

\* C8 witness: page 1 with 2 records and next_cursor "7", page 2 requested
\* with cursor 7 with 1 record and no cursor: 3 records, 2 requests, done.
C8_Witness ==
    /\ cpc = "done"
    /\ Len(pages) = 2
    /\ Len(pages[1].data) = 2
    /\ pages[1].next = JStr(7)
    /\ pages[2].sent = 7
    /\ Len(pages[2].data) = 1
    /\ Len(received) = 3

\* C9: a network call is issued only while the consumer is pulling and after
\* it has received every record of the pages fetched so far; once the
\* consumer has stopped pulling nothing more is requested or yielded.
C9_Lazy ==
    /\ [][ncalls' = ncalls + 1 =>
            (pulling /\ ~stopped /\ received = FlattenData(pages))]_vars
    /\ [][~pulling => UNCHANGED <<ncalls, received, cpc, clock>>]_vars
    /\ [][stopped => (stopped' /\ ~pulling' /\ UNCHANGED <<ncalls, received>>)]_vars

\* C9 witness: the request for page 2 is in flight and the consumer holds
\* both records of page 1.
C9_Witness ==
    /\ cpc = "handle"
    /\ Len(pages) = 1
    /\ Len(received) = 2
    /\ pulling

\* C9 second case: the consumer abandoned the traversal with a further page
\* announced and not requested.
C9_WitnessAbandoned ==
    /\ stopped
    /\ Len(pages) = 1
    /\ pages[1].next # JNull
    /\ Len(received) = Len(pages[1].data)


-----------------------------------------------------------------------------
\* Spacing of the network calls of one client

\* C11: every network call of a client -- a first attempt, a retry after a
\* transport failure or a 429, the request of a further page -- is issued on
\* the return of a wait() that was entered after the previous call, and no
\* earlier than min_interval_seconds after the previous network call.
C11_CallsSpaced ==
    [][ (cpc = "wait" /\ cpc' = "handle") =>
           /\ rl_pc[1] = "ret"
           /\ rl_ret[1] = clock
           /\ rl_now[1] >= last_call
           /\ last_call > 0 => clock >= last_call + min_interval_seconds ]_vars

\* C11 witness: the request of a further page has been sent after its wait()
\* had to sleep.
C11_Witness ==
    /\ cpc = "handle"
    /\ Len(pages) >= 1
    /\ ncalls = 1
    /\ rl_slept[1]
    /\ last_call > 0

\* C11 second case: a retry has been sent after a backoff longer than the
\* interval, its wait() returning without sleeping.
C11_WitnessRetry ==
    /\ cpc = "handle"
    /\ ncalls >= 2
    /\ ~rl_slept[1]

-----------------------------------------------------------------------------
\* _get_best_props (ingest_betting_and_extras.py)

\* VENDOR_PRIORITY (1 = highest priority)
VENDOR_PRIORITY ==
    ("draftkings" :> 1) @@ ("fanduel" :> 2) @@ ("betmgm" :> 3) @@
    ("bet365" :> 4) @@ ("betway" :> 5)

\* PROP_MAP (API key -> DB column)
PROP_MAP ==
    ("passing_yards" :> "player_pass_yds") @@
    ("rushing_yards" :> "player_rush_yds") @@
    ("receiving_yards" :> "player_rec_yds") @@
    ("passing_tds" :> "player_pass_tds") @@
    ("passing_attempts" :> "player_pass_att") @@
    ("rushing_attempts" :> "player_rush_att") @@
    ("rushing_receiving_yards" :> "player_rush_rec_yds") @@
    ("longest_rush" :> "player_longest_rush") @@
    ("longest_reception" :> "player_longest_rec")

\* Vendor names as the upstream spells them; "caesars" has no priority.
RawVendors == {"draftkings", "fanduel", "FanDuel", "caesars"}

\* str.lower() on the vendor names of the feed
Lower(v) == IF v = "FanDuel" THEN "fanduel" ELSE v

\* market.type values of the feed
MarketTypes == {"over_under", "milestone"}

\* (player_id, prop_type) of a raw row: two mapped facts of player 55, a
\* prop type outside PROP_MAP, a row without player_id.
RawFacts == { <<55, "passing_yards">>, <<55, "rushing_yards">>,
              <<55, "anytime_td">>, <<None, "passing_yards">> }

\* The i-th raw prop of a feed.
PropChoices(i) ==
    { [id |-> i, player_id |-> f[1], prop_type |-> f[2], vendor |-> v, market_type |-> m] :
        f \in RawFacts, v \in RawVendors, m \in MarketTypes }

\* is_valid_prop(row)
is_valid_prop_anyvendor(row) == row.market_type = "over_under"

is_valid_prop(row) ==
    /\ Lower(row.vendor) \in DOMAIN VENDOR_PRIORITY
    /\ row.market_type = "over_under"

\* map_player_prop(row) returns a dict (not None)
Mappable(row) ==
    /\ row.prop_type \in DOMAIN PROP_MAP
    /\ row.player_id # None

\* map_player_prop(row), for a row it maps
map_player_prop(row) ==
    [id |-> row.id, player_id |-> row.player_id, vendor |-> Lower(row.vendor),
     prop_type |-> PROP_MAP[row.prop_type], market_type |-> row.market_type]

\* VENDOR_PRIORITY.get(vendor, 99)
PriorityOf(v) == IF v \in DOMAIN VENDOR_PRIORITY THEN VENDOR_PRIORITY[v] ELSE 99

\* key = f"{player_id}|{prop_type}"
PropKey(m) == <<m.player_id, m.prop_type>>

\* if current_priority < existing_priority: replace
Upgrade_on_tie(current_priority, existing_priority) ==
    current_priority <= existing_priority

Upgrade(current_priority, existing_priority) ==
    current_priority < existing_priority

\* One iteration of the loop of _get_best_props: best_map after `row`.
\* A replaced value keeps its place in the dict.
_get_best_props_step_keepfirst(bm, row) ==
    IF ~is_valid_prop(row) \/ ~Mappable(row)
    THEN bm
    ELSE LET mapped == map_player_prop(row)
             at == { i \in 1..Len(bm) : PropKey(bm[i]) = PropKey(mapped) }
         IN  IF at = {} THEN Append(bm, mapped) ELSE bm

_get_best_props_step(bm, row) ==
    IF ~is_valid_prop(row) \/ ~Mappable(row)
    THEN bm
    ELSE LET mapped == map_player_prop(row)
             at == { i \in 1..Len(bm) : PropKey(bm[i]) = PropKey(mapped) }
         IN  IF at = {}
             THEN Append(bm, mapped)
             ELSE LET i == CHOOSE j \in at : TRUE
                  IN  IF Upgrade(PriorityOf(mapped.vendor), PriorityOf(bm[i].vendor))
                      THEN [bm EXCEPT ![i] = mapped]
                      ELSE bm

PropsInit ==
    /\ props_list = <<>>
    /\ best_map = <<>>
    /\ best_props = <<>>
    /\ bpc = "loop"

\* for row in props_list: the loop takes the next row of the feed
BestPropsRow ==
    /\ bpc = "loop"
    /\ Len(props_list) < MaxProps
    /\ \E row \in PropChoices(Len(props_list) + 1) :
          /\ props_list' = Append(props_list, row)
          /\ best_map' = _get_best_props_step(best_map, row)
    /\ UNCHANGED <<best_props, bpc>>
    /\ UNCHANGED <<ingestVars, rlVars, clientVars, rosterVars, rerunVars, loopVars, extrasVars, lateVars>>

\* the feed is exhausted: return list(best_map.values())
BestPropsReturn ==
    /\ bpc = "loop"
    /\ best_props' = best_map
    /\ bpc' = "returned"
    /\ UNCHANGED <<props_list, best_map>>
    /\ UNCHANGED <<ingestVars, rlVars, clientVars, rosterVars, rerunVars, loopVars, extrasVars, lateVars>>

NextProps ==
    \/ BestPropsRow
    \/ BestPropsReturn

-----------------------------------------------------------------------------
\* Properties of _get_best_props

MinOf(S) == CHOOSE x \in S : \A y \in S : x <= y

\* Rows of the feed that carry a player, a prop type and a ranked vendor.
RankedRows(s) ==
    { i \in 1..Len(s) : s[i].player_id # None
                        /\ Lower(s[i].vendor) \in DOMAIN VENDOR_PRIORITY }

\* Rows of the feed that pass is_valid_prop and that map_player_prop maps.
AcceptedRows(s) ==
    { i \in 1..Len(s) : is_valid_prop(s[i]) /\ Mappable(s[i]) }

\* The returned row m is a row for the (player_id, prop_type) of the raw row r.
SameFact(m, r) ==
    /\ m.player_id = r.player_id
    /\ r.prop_type \in DOMAIN PROP_MAP
    /\ m.prop_type = PROP_MAP[r.prop_type]

SameRawFact(r1, r2) == r1.player_id = r2.player_id /\ r1.prop_type = r2.prop_type

\* For each row of `cands` the result has exactly one row for its pair, from
\* the vendor of least priority value among the rows of `cands` on that pair.
OnePerPairBest(cands) ==
    \A i \in cands :
        LET hits == { j \in 1..Len(best_props) : SameFact(best_props[j], props_list[i]) }
            prios == { PriorityOf(Lower(props_list[k].vendor)) :
                         k \in { k \in cands : SameRawFact(props_list[k], props_list[i]) } }
        IN  /\ Cardinality(hits) = 1
            /\ \A j \in hits : PriorityOf(best_props[j].vendor) = MinOf(prios)

\* C12 as stated: for every (player_id, prop_type) pair that occurs among the
\* rows given to _get_best_props with a ranked vendor, the result holds exactly
\* one row for the pair, from the vendor of minimum VENDOR_PRIORITY among them.
C12_OnePerPairOfInput ==
    bpc = "returned" => OnePerPairBest(RankedRows(props_list))

\* C12 amended: for every (player_id, prop_type) pair that occurs among the
\* rows that pass is_valid_prop (ranked vendor, over_under market) and that
\* map_player_prop maps (prop type in PROP_MAP, player_id present), the result
\* holds exactly one row, from the vendor of minimum VENDOR_PRIORITY among those
\* rows; the result holds no row for any other pair.
C12_OnePerAcceptedPair ==
    bpc = "returned" =>
        /\ OnePerPairBest(AcceptedRows(props_list))
        /\ \A j \in 1..Len(best_props) :
              \E i \in AcceptedRows(props_list) : SameFact(best_props[j], props_list[i])

\* C12 witness: two pairs are returned, one of them after a better vendor
\* arrived later in the feed than a worse one.
C12_Witness ==
    /\ bpc = "returned"
    /\ Len(best_props) = 2
    /\ \E i, k \in AcceptedRows(props_list) :
          /\ i < k
          /\ SameRawFact(props_list[i], props_list[k])
          /\ PriorityOf(Lower(props_list[k].vendor)) < PriorityOf(Lower(props_list[i].vendor))

\* C13: _get_best_props never holds or returns a row whose vendor has no
\* entry in VENDOR_PRIORITY, and over_under rows from fanduel, draftkings and
\* an unranked vendor on one mapped (player, fact), in any order, give exactly
\* one row, vendor draftkings.
C13_UnrankedExcluded ==
    /\ \A j \in 1..Len(best_map) : best_map[j].vendor \in DOMAIN VENDOR_PRIORITY
    /\ \A j \in 1..Len(best_props) : best_props[j].vendor \in DOMAIN VENDOR_PRIORITY
    /\ ( /\ bpc = "returned"
         /\ Len(props_list) = 3
         /\ \A i \in 1..3 : /\ props_list[i].market_type = "over_under"
                            /\ Mappable(props_list[i])
                            /\ SameRawFact(props_list[i], props_list[1])
         /\ { Lower(props_list[i].vendor) : i \in 1..3 } = {"fanduel", "draftkings", "caesars"} )
       => ( /\ Len(best_props) = 1
            /\ best_props[1].vendor = "draftkings"
            /\ SameFact(best_props[1], props_list[1]) )

\* C13 witness: the scenario, in the order fanduel, draftkings, unranked.
C13_Witness ==
    /\ bpc = "returned"
    /\ Len(props_list) = 3
    /\ \A i \in 1..3 : /\ props_list[i].market_type = "over_under"
                       /\ Mappable(props_list[i])
                       /\ SameRawFact(props_list[i], props_list[1])
    /\ Lower(props_list[1].vendor) = "fanduel"
    /\ props_list[2].vendor = "draftkings"
    /\ props_list[3].vendor = "caesars"
    /\ Len(best_props) = 1

\* C13 second case: a pair quoted by the unranked vendor alone gives no row.
C13_WitnessUnrankedOnly ==
    /\ bpc = "returned"
    /\ Len(props_list) = 1
    /\ props_list[1].vendor = "caesars"
    /\ props_list[1].market_type = "over_under"
    /\ Mappable(props_list[1])
    /\ best_props = <<>>

\* C14: of the accepted rows of one vendor for one (player_id, prop_type), the
\* result never holds a later one: a returned row of that vendor is the first
\* of them in input order.
C14_FirstOfVendor ==
    bpc = "returned" =>
        \A j \in 1..Len(best_props) :
            LET same == { i \in AcceptedRows(props_list) :
                            /\ SameFact(best_props[j], props_list[i])
                            /\ Lower(props_list[i].vendor) = best_props[j].vendor }
            IN  /\ same # {}
                /\ best_props[j].id = MinOf(same)

\* C14 witness: the same vendor quoted the same pair twice and its first row
\* was returned.
C14_Witness ==
    /\ bpc = "returned"
    /\ \E i, k \in AcceptedRows(props_list) :
          /\ i < k
          /\ SameRawFact(props_list[i], props_list[k])
          /\ Lower(props_list[i].vendor) = Lower(props_list[k].vendor)
          /\ \E j \in 1..Len(best_props) : best_props[j].id = i

-----------------------------------------------------------------------------
\* Roster collapse of ingest_rosters (balldontlie_ingestor.py)

_ST_POSITIONS == {"KR", "PR", "LS", "P", "PK", "H"}

\* (team_id, player_id, season) keys and positions of the roster feed
RosterKeys == { <<3, 9, 2025>>, <<3, 10, 2025>> }

Positions == {"WR", "QB", "PR", "LS"}

\* The i-th row of roster_rows (after map_roster_entry).
RosterChoices(i) ==
    { [id |-> i, team_id |-> k[1], player_id |-> k[2], season |-> k[3], position |-> p] :
        k \in RosterKeys, p \in Positions }

\* key = (row["team_id"], row["player_id"], row["season"])
RosterKey(row) == <<row.team_id, row.player_id, row.season>>

\* One iteration of the collapse loop: seen_keys after `row`.
roster_step_lastwins(seen, row) ==
    LET at == { i \in 1..Len(seen) : RosterKey(seen[i]) = RosterKey(row) }
    IN  IF at = {}
        THEN Append(seen, row)
        ELSE [seen EXCEPT ![CHOOSE j \in at : TRUE] = row]

roster_step(seen, row) ==
    LET at == { i \in 1..Len(seen) : RosterKey(seen[i]) = RosterKey(row) }
    IN  IF at = {}
        THEN Append(seen, row)
        ELSE IF row.position \notin _ST_POSITIONS
             THEN [seen EXCEPT ![CHOOSE j \in at : TRUE] = row]
             ELSE seen

RosterInit ==
    /\ roster_rows = <<>>
    /\ seen_keys = <<>>
    /\ dedupe_rows = <<>>
    /\ rpc = "loop"

\* for row in roster_rows: the loop takes the next row
RosterRow ==
    /\ rpc = "loop"
    /\ Len(roster_rows) < MaxRoster
    /\ \E row \in RosterChoices(Len(roster_rows) + 1) :
          /\ roster_rows' = Append(roster_rows, row)
          /\ seen_keys' = roster_step(seen_keys, row)
    /\ UNCHANGED <<dedupe_rows, rpc>>
    /\ UNCHANGED <<ingestVars, rlVars, clientVars, propsVars, rerunVars, loopVars, extrasVars, lateVars>>

\* dedupe_rows = list(seen_keys.values())
RosterCollapsed ==
    /\ rpc = "loop"
    /\ dedupe_rows' = seen_keys
    /\ rpc' = "collapsed"
    /\ UNCHANGED <<roster_rows, seen_keys>>
    /\ UNCHANGED <<ingestVars, rlVars, clientVars, propsVars, rerunVars, loopVars, extrasVars, lateVars>>

NextRoster ==
    \/ RosterRow
    \/ RosterCollapsed

\* C15: the collapse keeps exactly one row per (team_id, player_id, season)
\* of the input, the kept row is one of the input rows of that key, and it is
\* not a special-teams row whenever some input row of the key is not one,
\* whatever the order.
C15_RosterCollapse ==
    rpc = "collapsed" =>
        \A i \in 1..Len(roster_rows) :
            LET kept == { j \in 1..Len(dedupe_rows) :
                            RosterKey(dedupe_rows[j]) = RosterKey(roster_rows[i]) }
                cands == { k \in 1..Len(roster_rows) :
                            RosterKey(roster_rows[k]) = RosterKey(roster_rows[i]) }
            IN  /\ Cardinality(kept) = 1
                /\ \A j \in kept :
                      /\ \E k \in cands : roster_rows[k] = dedupe_rows[j]
                      /\ (\E k \in cands : roster_rows[k].position \notin _ST_POSITIONS)
                            => dedupe_rows[j].position \notin _ST_POSITIONS

\* C15 witness: WR then PR for one key, PR then WR for the other; both keep WR.
C15_Witness ==
    /\ rpc = "collapsed"
    /\ Len(roster_rows) = 4
    /\ \E a, b, c, d \in 1..4 :
          /\ a < b /\ c < d
          /\ RosterKey(roster_rows[a]) = RosterKey(roster_rows[b])
          /\ RosterKey(roster_rows[c]) = RosterKey(roster_rows[d])
          /\ RosterKey(roster_rows[a]) # RosterKey(roster_rows[c])
          /\ roster_rows[a].position = "WR" /\ roster_rows[b].position = "PR"
          /\ roster_rows[c].position = "PR" /\ roster_rows[d].position = "WR"
    /\ Len(dedupe_rows) = 2
    /\ \A j \in 1..2 : dedupe_rows[j].position = "WR"

-----------------------------------------------------------------------------
\* Two runs of ingest_core over the same upstream teams (balldontlie_ingestor.py)

\* Upstream team records: bdl.list_teams() returns the same list in both runs.
TeamNames == {"Bears", "Lions"}

Fixtures ==
    { <<>> } \cup
    { <<[id |-> 1, name |-> n]>> : n \in TeamNames } \cup
    { <<[id |-> 1, name |-> n], [id |-> 2, name |-> m]>> : n, m \in TeamNames }

\* _now_iso(): the wall clock at the moment of the call
_now_iso == clock

\* map_team(t)
map_team(t) == [id |-> t.id, name |-> t.name, updated_at |-> _now_iso]

\* supabase.upsert("nfl_teams", rows, on_conflict="id")
UpsertById(st, rows) ==
    LET new == SeqToSet(rows)
    IN  { r \in st : ~ \E n \in new : n.id = r.id } \cup new

RerunInit ==
    /\ run_no = 1
    /\ fixture = <<>>
    /\ teams_rows = <<>>
    /\ teams_store = {}
    /\ first_store = {}
    /\ rr_pc = "fetch"

\* teams_raw = bdl.list_teams(); teams_rows = [map_team(t) for t in teams_raw]
ListTeams ==
    /\ rr_pc = "fetch"
    /\ IF run_no = 1 THEN fixture' \in Fixtures ELSE UNCHANGED fixture
    /\ teams_rows' = [i \in 1..Len(fixture') |-> map_team(fixture'[i])]
    /\ rr_pc' = "upsert"
    /\ UNCHANGED <<run_no, teams_store, first_store>>
    /\ UNCHANGED <<ingestVars, rlVars, clientVars, propsVars, rosterVars, loopVars, extrasVars, lateVars>>

\* supabase.upsert("nfl_teams", teams_rows, on_conflict="id") if teams_rows else 0
UpsertTeams ==
    /\ rr_pc = "upsert"
    /\ teams_store' = IF teams_rows # <<>> THEN UpsertById(teams_store, teams_rows)
                      ELSE teams_store
    /\ rr_pc' = "done"
    /\ UNCHANGED <<run_no, fixture, teams_rows, first_store>>
    /\ UNCHANGED <<ingestVars, rlVars, clientVars, propsVars, rosterVars, loopVars, extrasVars, lateVars>>

\* The pipeline is started again with the upstream unchanged.
SecondRun ==
    /\ rr_pc = "done"
    /\ run_no = 1
    /\ run_no' = 2
    /\ first_store' = teams_store
    /\ rr_pc' = "fetch"
    /\ UNCHANGED <<fixture, teams_rows, teams_store>>
    /\ UNCHANGED <<ingestVars, rlVars, clientVars, propsVars, rosterVars, loopVars, extrasVars, lateVars>>

RerunTick ==
    /\ Tick
    /\ UNCHANGED <<rerunVars, ingestVars, clientVars, propsVars, rosterVars, loopVars, extrasVars, lateVars>>

NextRerun ==
    \/ ListTeams
    \/ UpsertTeams
    \/ SecondRun
    \/ RerunTick

\* C16: after a second run over the unchanged upstream the store holds the
\* same rows, with the same field values, as after the first run.
C16_RerunSameStore ==
    (run_no = 2 /\ rr_pc = "done") => teams_store = first_store

-----------------------------------------------------------------------------
\* Properties of the rows and batches that reach the upsert sink

\* C17: every row of every batch passed to supabase.upsert for player game
\* stats, and of the batch about to be passed, has a non-null value in each
\* of the required fields player_id and game_id.
C17_RequiredNonNull ==
    /\ \A i \in 1..Len(upsert_calls) : \A j \in 1..Len(upsert_calls[i]) :
          /\ upsert_calls[i][j].player_id # None
          /\ upsert_calls[i][j].game_id # None
    /\ \A j \in 1..Len(chunk) :
          /\ chunk[j].player_id # None
          /\ chunk[j].game_id # None

\* C17 witness: a batch was upserted after a row without game_id and a row
\* without player_id had been read.
C17_Witness ==
    /\ upsert_calls # <<>>
    /\ \E i \in 1..Len(rows_read) :
          rows_read[i].player_id # None /\ rows_read[i].game_id = None
    /\ \E i \in 1..Len(rows_read) :
          rows_read[i].player_id = None
    /\ \E i \in 1..Len(rows_read) : i < Len(rows_read) /\ rows_read[i].game_id = None

\* C18: at every moment the rows _valid_rows has handed to its consumer are
\* exactly the rows read so far that have every required field, unchanged and
\* in input order: a valid row is handed over in the step that reads it,
\* before any later row is read.
C18_StreamsInOrder ==
    /\ [](forwarded = SelectSeq(rows_read,
                               LAMBDA r : r.player_id # None /\ r.game_id # None))
    /\ [][ rows_read' # rows_read =>
             /\ Len(rows_read') = Len(rows_read) + 1
             /\ LET r == rows_read'[Len(rows_read')]
                IN  IF r.player_id # None /\ r.game_id # None
                    THEN forwarded' = Append(forwarded, r)
                    ELSE forwarded' = forwarded ]_vars

\* C18 witness: a valid row, an invalid row and a second valid row were read
\* and both valid rows have been handed over while the feed is still open.
C18_Witness ==
    /\ ~feed_done
    /\ Len(rows_read) = 3
    /\ rows_read[1].player_id # None /\ rows_read[1].game_id # None
    /\ rows_read[2].player_id = None
    /\ rows_read[3].player_id # None /\ rows_read[3].game_id # None
    /\ forwarded = <<rows_read[1], rows_read[3]>>

\* C19: the batches _chunked yields are non-empty, hold at most batch_size
\* rows, all but the last exactly batch_size; together with the rows still in
\* buf they are the rows it consumed, in order; each batch is upserted once,
\* and the count returned is the sum of the sizes of the upserted batches.
C19_ChunkedBatches ==
    /\ \A i \in 1..Len(upsert_calls) :
          /\ Len(upsert_calls[i]) > 0
          /\ Len(upsert_calls[i]) <= batch_size
          /\ (i < Len(upsert_calls) \/ chunk # <<>> \/ ~feed_done)
                => Len(upsert_calls[i]) = batch_size
    /\ Len(chunk) <= batch_size
    /\ (chunk # <<>> /\ ~feed_done) => Len(chunk) = batch_size
    /\ Len(buf) < batch_size
    /\ status[GameStatsUnit] # "Aborted"
          => Flatten(upsert_calls) \o chunk \o buf = forwarded
    /\ game_stats_upserted = Len(Flatten(upsert_calls))
    /\ gpc = "end" =>
          /\ Flatten(upsert_calls) = forwarded
          /\ Len(upsert_calls) * batch_size >= Len(forwarded)
          /\ Len(upsert_calls) * batch_size < Len(forwarded) + batch_size

\* C19 witness: the feed ended after a full batch and a shorter last batch.
C19_Witness ==
    /\ gpc = "end"
    /\ Len(upsert_calls) = 2
    /\ Len(upsert_calls[1]) = batch_size
    /\ Len(upsert_calls[2]) < batch_size
    /\ game_stats_upserted = Len(forwarded)

-----------------------------------------------------------------------------
\* Per-game props loops: ingest_extras (ingest_betting_and_extras.py) and
\* ingest_player_props_filtered (balldontlie_ingestor.py)

PropsLoops == {"ingest_extras", "ingest_player_props_filtered"}

\* What can go wrong for one game: a classified API error, a transport
\* exception re-raised by _request, an error raised by supabase.upsert.
GameFaults == {"BallDontLieError", "TransportError", "StoreError"}

\* Exception kinds the except clause around one game's body catches:
\* `except Exception` in ingest_extras, `except BallDontLieError` in
\* ingest_player_props_filtered.
LoopCatches_classified(fn) == {"BallDontLieError"}

LoopCatches(fn) ==
    IF fn = "ingest_extras" THEN GameFaults ELSE {"BallDontLieError"}

LoopInit ==
    /\ loop_fn = "none"
    /\ n_games = 0
    /\ game_out = <<>>
    /\ lpc = "idle"
    /\ loop_exc = "none"

\* One of the two functions is called with a list of game ids.
StartLoop ==
    /\ lpc = "idle"
    /\ loop_fn' \in PropsLoops
    /\ n_games' \in 1..MaxGames
    /\ lpc' = "running"
    /\ UNCHANGED <<game_out, loop_exc>>
    /\ UNCHANGED <<ingestVars, rlVars, clientVars, propsVars, rosterVars, rerunVars, extrasVars, lateVars>>

\* The body of the try runs to its end for the next game id.
GameOk ==
    /\ lpc = "running"
    /\ Len(game_out) < n_games
    /\ game_out' = Append(game_out, "ok")
    /\ UNCHANGED <<loop_fn, n_games, lpc, loop_exc>>
    /\ UNCHANGED <<ingestVars, rlVars, clientVars, propsVars, rosterVars, rerunVars, extrasVars, lateVars>>

\* The fetch or the upsert of the next game id raises: the except clause
\* logs it and the loop goes on, or the exception leaves the function.
GameFault ==
    /\ lpc = "running"
    /\ Len(game_out) < n_games
    /\ \E k \in GameFaults :
          /\ game_out' = Append(game_out, k)
          /\ IF k \in LoopCatches(loop_fn)
             THEN UNCHANGED <<lpc, loop_exc>>
             ELSE lpc' = "raised" /\ loop_exc' = k
    /\ UNCHANGED <<loop_fn, n_games>>
    /\ UNCHANGED <<ingestVars, rlVars, clientVars, propsVars, rosterVars, rerunVars, extrasVars, lateVars>>

\* The for loop is exhausted.
LoopEnd ==
    /\ lpc = "running"
    /\ Len(game_out) = n_games
    /\ lpc' = "ended"
    /\ UNCHANGED <<loop_fn, n_games, game_out, loop_exc>>
    /\ UNCHANGED <<ingestVars, rlVars, clientVars, propsVars, rosterVars, rerunVars, extrasVars, lateVars>>

NextLoop ==
    \/ StartLoop
    \/ GameOk
    \/ GameFault
    \/ LoopEnd

\* C20: in both per-game props loops a failure for one game, of whatever
\* kind, does not stop the loop: no exception leaves the loop, and it stops
\* only after every game id has been processed.
C20_LoopContinues ==
    /\ lpc # "raised"
    /\ lpc = "ended" => Len(game_out) = n_games

-----------------------------------------------------------------------------
\* ingest_extras (ingest_betting_and_extras.py)

\* The props feed of game g: nothing, a fanduel line, or a fanduel and a
\* draftkings line on the same (player, prop type); ids are the upstream's.
PropFeeds(g) ==
    LET line(k, v) == [id |-> 10 * g + k, player_id |-> 55, prop_type |-> "passing_yards",
                       vendor |-> v, market_type |-> "over_under"]
    IN  { <<>>, <<line(1, "fanduel")>>, <<line(1, "fanduel"), line(2, "draftkings")>> }

\* _get_best_props(raw_props)
RECURSIVE _get_best_props(_)
_get_best_props(feed) ==
    IF feed = <<>> THEN <<>>
    ELSE _get_best_props_step(_get_best_props(SubSeq(feed, 1, Len(feed) - 1)),
                              feed[Len(feed)])

ExtrasInit ==
    /\ epc = "games"
    /\ e_run = 1
    /\ n_seasons = 0
    /\ season_ix = 1
    /\ n_game_ids = 0
    /\ game_ix = 1
    /\ e_counts = [team_season_stats |-> 0, standings |-> 0, injuries |-> 0,
                   player_props |-> 0, game_odds |-> 0]
    /\ props_log = <<>>
    /\ props_table = {}
    /\ inj_done = FALSE

\* Where control goes after the block at `at` for the season in progress.
AfterBlock_no_standings(at) ==
    CASE at = "team_stats" -> IF n_game_ids > 0 THEN "props" ELSE "season_end"
      [] at = "standings" -> IF n_game_ids > 0 THEN "props" ELSE "season_end"
      [] at = "props" -> "odds"
      [] at = "odds" -> "season_end"
      [] at = "injuries" -> "returned"

AfterBlock(at) ==
    CASE at = "team_stats" -> "standings"
      [] at = "standings" -> IF n_game_ids > 0 THEN "props" ELSE "season_end"
      [] at = "props" -> "odds"
      [] at = "odds" -> "season_end"
      [] at = "injuries" -> "returned"

\* A try block ends, normally with `add` rows counted under `key` or with an
\* exception of kind k: `except Exception` logs it and control goes on.
EndBlock(at, key, add) ==
    LET nxt == AfterBlock(at)
        go == /\ epc' = IF nxt = "season_end"
                        THEN (IF season_ix < n_seasons THEN "team_stats" ELSE "injuries")
                        ELSE nxt
              /\ season_ix' = IF nxt = "season_end" THEN season_ix + 1 ELSE season_ix
              /\ game_ix' = 1
    IN  \/ /\ e_counts' = [e_counts EXCEPT ![key] = @ + add]
           /\ go
        \/ \E k \in GameFaults :
              /\ UNCHANGED e_counts
              /\ IF k \in LoopCatches("ingest_extras")
                 THEN go
                 ELSE epc' = "raised" /\ UNCHANGED <<season_ix, game_ix>>

\* game_ids = [...] from bdl.iter_games(seasons), or [] when the fetch fails
FetchGameIds ==
    /\ epc = "games"
    /\ n_seasons' \in (IF e_run = 1 THEN 1..MaxSeasons ELSE {n_seasons})
    /\ \/ n_game_ids' \in 0..MaxGameIds
       \/ \E k \in GameFaults :
             /\ k \in LoopCatches("ingest_extras")
             /\ n_game_ids' = 0
    /\ epc' = "team_stats"
    /\ UNCHANGED <<e_run, season_ix, game_ix, e_counts, props_log, props_table, inj_done>>
    /\ UNCHANGED <<ingestVars, rlVars, clientVars, propsVars, rosterVars, rerunVars, loopVars, lateVars>>

TeamStats ==
    /\ epc = "team_stats"
    /\ EndBlock("team_stats", "team_season_stats", 1)
    /\ UNCHANGED <<e_run, n_seasons, n_game_ids, props_log, props_table, inj_done>>
    /\ UNCHANGED <<ingestVars, rlVars, clientVars, propsVars, rosterVars, rerunVars, loopVars, lateVars>>

Standings ==
    /\ epc = "standings"
    /\ EndBlock("standings", "standings", 1)
    /\ UNCHANGED <<e_run, n_seasons, n_game_ids, props_log, props_table, inj_done>>
    /\ UNCHANGED <<ingestVars, rlVars, clientVars, propsVars, rosterVars, rerunVars, loopVars, lateVars>>

\* One iteration of `for i, gid in enumerate(game_ids)`: fetch, dedup, upsert
\* on_conflict="id"; any exception is logged and the loop goes on.
GameProps ==
    /\ epc = "props"
    /\ game_ix <= n_game_ids
    /\ \/ \E feed \in PropFeeds(game_ix) :
             LET best_rows == _get_best_props(feed)
                 rows == [j \in 1..Len(best_rows) |->
                            [id |-> best_rows[j].id, game_id |-> game_ix,
                             player_id |-> best_rows[j].player_id,
                             prop_type |-> best_rows[j].prop_type,
                             vendor |-> best_rows[j].vendor]]
             IN  \/ /\ props_table' = IF rows # <<>> THEN UpsertById(props_table, rows)
                                      ELSE props_table
                    /\ e_counts' = [e_counts EXCEPT !.player_props = @ + Len(rows)]
                    /\ props_log' = Append(props_log,
                                           [game |-> game_ix, ids |-> {r.id : r \in SeqToSet(rows)}])
                 \/ /\ rows # <<>>
                    /\ \E k \in GameFaults : k \in LoopCatches("ingest_extras")
                    /\ props_log' = Append(props_log, [game |-> game_ix, ids |-> {}])
                    /\ UNCHANGED <<props_table, e_counts>>
       \/ /\ \E k \in GameFaults : k \in LoopCatches("ingest_extras")
          /\ props_log' = Append(props_log, [game |-> game_ix, ids |-> {}])
          /\ UNCHANGED <<props_table, e_counts>>
    /\ game_ix' = game_ix + 1
    /\ epc' = IF game_ix < n_game_ids THEN "props" ELSE "odds"
    /\ UNCHANGED <<e_run, n_seasons, season_ix, n_game_ids, inj_done>>
    /\ UNCHANGED <<ingestVars, rlVars, clientVars, propsVars, rosterVars, rerunVars, loopVars, lateVars>>

GameOdds ==
    /\ epc = "odds"
    /\ EndBlock("odds", "game_odds", 1)
    /\ UNCHANGED <<e_run, n_seasons, n_game_ids, props_log, props_table, inj_done>>
    /\ UNCHANGED <<ingestVars, rlVars, clientVars, propsVars, rosterVars, rerunVars, loopVars, lateVars>>

Injuries ==
    /\ epc = "injuries"
    /\ EndBlock("injuries", "injuries", 1)
    /\ inj_done' = TRUE
    /\ UNCHANGED <<e_run, n_seasons, n_game_ids, props_log, props_table>>
    /\ UNCHANGED <<ingestVars, rlVars, clientVars, propsVars, rosterVars, rerunVars, loopVars, lateVars>>

\* ingest_extras is called again; the store keeps what the earlier call wrote.
ExtrasAgain ==
    /\ epc = "returned"
    /\ e_run < MaxRuns
    /\ e_run' = e_run + 1
    /\ epc' = "games"
    /\ season_ix' = 1
    /\ game_ix' = 1
    /\ n_game_ids' = 0
    /\ e_counts' = [team_season_stats |-> 0, standings |-> 0, injuries |-> 0,
                    player_props |-> 0, game_odds |-> 0]
    /\ props_log' = <<>>
    /\ inj_done' = FALSE
    /\ UNCHANGED <<n_seasons, props_table>>
    /\ UNCHANGED <<ingestVars, rlVars, clientVars, propsVars, rosterVars, rerunVars, loopVars, lateVars>>

\* One call of ingest_extras.
NextExtras ==
    \/ FetchGameIds
    \/ TeamStats
    \/ Standings
    \/ GameProps
    \/ GameOdds
    \/ Injuries

\* Calls of ingest_extras one after the other against one store.
NextExtrasRuns ==
    \/ FetchGameIds
    \/ TeamStats
    \/ Standings
    \/ GameProps
    \/ GameOdds
    \/ Injuries
    \/ ExtrasAgain

-----------------------------------------------------------------------------
\* Properties of ingest_extras

\* C21: whatever fetches and writes fail, in the game-id lookup and in any
\* dataset, no exception leaves ingest_extras and every call reaches its
\* return statement with the five counts team_season_stats, standings,
\* injuries, player_props and game_odds.
C21_AlwaysReturns ==
    /\ [](epc # "raised")
    /\ [](DOMAIN e_counts = {"team_season_stats", "standings", "injuries",
                             "player_props", "game_odds"})
    /\ <>(epc = "returned")

\* C21 witness: a call over two seasons returned although the team stats,
\* standings and injuries blocks all failed and a game's props failed.
C21_Witness ==
    /\ epc = "returned"
    /\ n_seasons = 2
    /\ e_counts.team_season_stats = 0
    /\ e_counts.standings = 0
    /\ e_counts.injuries = 0
    /\ \E i \in 1..Len(props_log) : props_log[i].ids = {}
    /\ e_counts.game_odds > 0

\* Position of dataset u in the sequence run_ingest_v2.main executes.
UnitPos(u) == CHOOSE i \in 1..NUnits : Units[i] = u

\* C22 as stated: datasets run one after the other in the order teams,
\* players, games, stats, standings, injuries, rosters, props, odds; so the
\* props and the odds of ingest_extras start only after its injuries ended.
C22_ClaimedOrder ==
    /\ UnitPos("teams") < UnitPos("players")
    /\ UnitPos("players") < UnitPos("games")
    /\ UnitPos("games") < UnitPos("team_season_stats")
    /\ UnitPos("team_season_stats") < UnitPos("standings")
    /\ UnitPos("standings") < UnitPos("injuries")
    /\ UnitPos("injuries") < UnitPos("rosters")
    /\ epc \in {"props", "odds"} => inj_done

\* C22 amended: datasets run one at a time.  main runs teams, players, games,
\* team season stats, standings, player season stats, player game stats,
\* advanced stats, full stats, injuries, rosters, active players, so the
\* player stats run after players and games.  ingest_extras runs, for each
\* season, team season stats, standings, props (game by game) and odds, and
\* runs injuries once after the last season, not before props and odds.
C22_ActualOrder ==
    /\ [](/\ Units = << "teams", "players", "games", "team_season_stats", "standings",
                        "season_stats", "game_stats", "adv_receiving", "adv_rushing",
                        "adv_passing", "full_stats", "injuries", "rosters",
                        "active_players" >>
          /\ UnitPos("players") < UnitPos("season_stats")
          /\ UnitPos("games") < UnitPos("game_stats")
          /\ epc \in {"team_stats", "standings", "props", "odds", "injuries"} => ~inj_done
          /\ epc = "returned" => inj_done
          /\ epc = "injuries" => season_ix > n_seasons
          /\ epc \in {"props", "odds"} => n_game_ids > 0)
    /\ [][ epc' # epc =>
             <<epc, epc'>> \in { <<"games", "team_stats">>, <<"team_stats", "standings">>,
                                 <<"standings", "props">>, <<"standings", "team_stats">>,
                                 <<"standings", "injuries">>, <<"props", "odds">>,
                                 <<"odds", "team_stats">>, <<"odds", "injuries">>,
                                 <<"injuries", "returned">>, <<"returned", "games">> } ]_vars
    /\ [][ (epc = "props" /\ epc' = "props") => game_ix' = game_ix + 1 ]_vars

\* C22 witness: the injuries block is reached after the props of the games
\* were processed in each of two seasons.
C22_Witness ==
    /\ epc = "injuries"
    /\ n_seasons = 2
    /\ n_game_ids = 1
    /\ Len(props_log) = 2
    /\ ~inj_done

-----------------------------------------------------------------------------
\* ingest_injuries (balldontlie_ingestor.py); an injury row is identified
\* here by its player_id.

\* Rows an earlier run left in nfl_injuries.
PriorInjuries == {1, 2}

\* if not team_ids:
ShouldDelete_always(tf) == TRUE

ShouldDelete(tf) == ~tf

InjInit ==
    /\ ipc = "idle"
    /\ team_filter = FALSE
    /\ inj_feed = <<>>
    /\ all_rows = <<>>
    /\ inj_store = PriorInjuries

\* ingest_injuries is called, with or without team_ids.
InjStart ==
    /\ ipc = "idle"
    /\ team_filter' \in BOOLEAN
    /\ ipc' = "fetch"
    /\ UNCHANGED <<inj_feed, all_rows, inj_store>>
    /\ UNCHANGED <<ingestVars, rlVars, clientVars, extVars, playVars, keyVars, cursorVars>>

\* for inj in bdl.iter_injuries(...): the next record is mapped and kept if
\* it has a player_id, or the fetch raises and the exception leaves the function.
InjRead ==
    /\ ipc = "fetch"
    /\ Len(inj_feed) < MaxInj
    /\ \/ \E p \in {None, 1, 3} :
             /\ inj_feed' = Append(inj_feed, p)
             /\ all_rows' = IF p # None /\ p # 0 THEN Append(all_rows, p) ELSE all_rows
             /\ UNCHANGED ipc
       \/ /\ ipc' = "fetch_failed"
          /\ UNCHANGED <<inj_feed, all_rows>>
    /\ UNCHANGED <<team_filter, inj_store>>
    /\ UNCHANGED <<ingestVars, rlVars, clientVars, extVars, playVars, keyVars, cursorVars>>

\* The feed is exhausted.
InjFetched ==
    /\ ipc = "fetch"
    /\ ipc' = IF ShouldDelete(team_filter) THEN "delete" ELSE "upsert"
    /\ UNCHANGED <<team_filter, inj_feed, all_rows, inj_store>>
    /\ UNCHANGED <<ingestVars, rlVars, clientVars, extVars, playVars, keyVars, cursorVars>>

\* supabase.delete("nfl_injuries", filters={"player_id": "gt.0"}) inside
\* try/except Exception: on failure a warning is logged and the run goes on.
InjDelete ==
    /\ ipc = "delete"
    /\ \/ inj_store' = { p \in inj_store : ~(p > 0) }
       \/ UNCHANGED inj_store
    /\ ipc' = "upsert"
    /\ UNCHANGED <<team_filter, inj_feed, all_rows>>
    /\ UNCHANGED <<ingestVars, rlVars, clientVars, extVars, playVars, keyVars, cursorVars>>

\* The chunks of all_rows are upserted, or the store raises.
InjUpsert ==
    /\ ipc = "upsert"
    /\ \/ /\ inj_store' = inj_store \cup SeqToSet(all_rows)
          /\ ipc' = "returned"
       \/ /\ all_rows # <<>>
          /\ ipc' = "upsert_failed"
          /\ UNCHANGED inj_store
    /\ UNCHANGED <<team_filter, inj_feed, all_rows>>
    /\ UNCHANGED <<ingestVars, rlVars, clientVars, extVars, playVars, keyVars, cursorVars>>

NextInjuries ==
    \/ InjStart
    \/ InjRead
    \/ InjFetched
    \/ InjDelete
    \/ InjUpsert

\* C23: when ingest_injuries without a team filter has returned, the table
\* holds exactly the injuries of the feed it fetched: every stored injury the
\* upstream no longer reports is gone.
C23_OnlyCurrentInjuries ==
    (ipc = "returned" /\ ~team_filter) => inj_store = SeqToSet(all_rows)

\* C28: a stored injury row is removed only by the delete step, which runs
\* only after the whole feed was fetched and only without a team filter; when
\* the fetch fails partway or a team filter is given the rows an earlier run
\* left are all still stored.
C28_DeleteOnlyAfterFetch ==
    /\ []((ipc = "fetch_failed" \/ team_filter \/ ipc \in {"idle", "fetch"})
             => PriorInjuries \subseteq inj_store)
    /\ [][ ~(inj_store \subseteq inj_store') =>
              /\ ipc = "delete"
              /\ ~team_filter ]_vars

\* C28 witness: the fetch failed after two records had been read and the
\* stored rows are untouched.
C28_Witness ==
    /\ ipc = "fetch_failed"
    /\ ~team_filter
    /\ Len(inj_feed) = 2
    /\ inj_store = PriorInjuries

\* C28 second case: with a team filter the run returned, rows were upserted
\* and the earlier rows are still stored.
C28_WitnessFilter ==
    /\ ipc = "returned"
    /\ team_filter
    /\ 3 \in inj_store
    /\ PriorInjuries \subseteq inj_store

\* C28 third case: without a filter the delete removed the earlier rows.
C28_WitnessDeleted ==
    /\ ipc = "returned"
    /\ ~team_filter
    /\ 2 \notin inj_store

-----------------------------------------------------------------------------
\* The plays table (schema.py), its two writers and the duplicate check.
\* A row is [game_id, play_id, target]; the table is the sequence of its rows,
\* so that two rows with one key can be told apart from one.

PlayRows == [game_id : {"G1"}, play_id : 1..MaxPlayId, target : {0, 1}]

\* PRIMARY KEY (game_id, play_id)
PlayKey(row) == <<row.game_id, row.play_id>>

HasKey(tbl, k) == \E i \in 1..Len(tbl) : PlayKey(tbl[i]) = k

\* INSERT OR REPLACE INTO plays: the row holding the key is removed and the
\* new row is inserted.
InsertOrReplace_append(tbl, row) == Append(tbl, row)

InsertOrReplace(tbl, row) ==
    Append(SelectSeq(tbl, LAMBDA r : PlayKey(r) # PlayKey(row)), row)

\* SELECT game_id, play_id, COUNT(*) AS c FROM plays GROUP BY game_id, play_id
\* HAVING c > 1
check_no_duplicate_plays(tbl) ==
    { k \in { PlayKey(tbl[i]) : i \in 1..Len(tbl) } :
        Cardinality({ i \in 1..Len(tbl) : PlayKey(tbl[i]) = k }) > 1 }

PlaysInit ==
    /\ plays = <<>>
    /\ play_op = [op |-> "none", row |-> None, err |-> "none"]
    /\ dup_report = {}

\* A plain INSERT INTO plays(...) of one row (tests: seed_minimal_game and
\* test_duplicate_play_ids_detected): rejected when the key is stored.
PlainInsert ==
    /\ \E row \in PlayRows :
          IF HasKey(plays, PlayKey(row))
          THEN /\ play_op' = [op |-> "insert", row |-> row, err |-> "IntegrityError"]
               /\ UNCHANGED plays
          ELSE /\ play_op' = [op |-> "insert", row |-> row, err |-> "none"]
               /\ plays' = Append(plays, row)
    /\ UNCHANGED dup_report
    /\ UNCHANGED <<ingestVars, rlVars, clientVars, extVars, injVars, keyVars, cursorVars>>

\* ingest: one row of cur.executemany(insert_sql, chunk).
IngestPlay ==
    /\ \E row \in PlayRows :
          /\ plays' = InsertOrReplace(plays, row)
          /\ play_op' = [op |-> "replace", row |-> row, err |-> "none"]
    /\ UNCHANGED dup_report
    /\ UNCHANGED <<ingestVars, rlVars, clientVars, extVars, injVars, keyVars, cursorVars>>

\* check_no_duplicate_plays(conn) is run.
PlaysCheck ==
    /\ dup_report' = check_no_duplicate_plays(plays)
    /\ play_op' = [op |-> "check", row |-> None, err |-> "none"]
    /\ UNCHANGED plays
    /\ UNCHANGED <<ingestVars, rlVars, clientVars, extVars, injVars, keyVars, cursorVars>>

NextPlays ==
    \/ PlainInsert
    \/ IngestPlay
    \/ PlaysCheck

\* C24: the plays table holds at most one row per (game_id, play_id); a plain
\* insert of a stored key is rejected with an integrity error and leaves the
\* table as it was, an ingest of a stored key replaces its row, and
\* check_no_duplicate_plays reports nothing.
C24_OneRowPerPlay ==
    /\ [](/\ \A i, j \in 1..Len(plays) :
                PlayKey(plays[i]) = PlayKey(plays[j]) => i = j
          /\ check_no_duplicate_plays(plays) = {}
          /\ dup_report = {})
    /\ [][ /\ (play_op'.op = "insert" /\ HasKey(plays, PlayKey(play_op'.row)))
                => (play_op'.err = "IntegrityError" /\ plays' = plays)
           /\ (play_op'.op = "replace")
                => /\ Len(SelectSeq(plays', LAMBDA r : PlayKey(r) = PlayKey(play_op'.row))) = 1
                   /\ \E i \in 1..Len(plays') : plays'[i] = play_op'.row ]_vars

\* C24 witness: a plain insert of a stored key was rejected.
C24_Witness ==
    /\ play_op.op = "insert"
    /\ play_op.err = "IntegrityError"
    /\ HasKey(plays, PlayKey(play_op.row))
    /\ Len(plays) >= 2

\* C24 second case: an ingest replaced the stored row of its key by a row
\* with another value.
C24_WitnessReplaced ==
    /\ play_op.op = "replace"
    /\ Len(plays) = 2
    /\ plays[2] = [game_id |-> "G1", play_id |-> 1, target |-> 1]
    /\ PlayKey(plays[1]) = <<"G1", 2>>

-----------------------------------------------------------------------------
\* One RateLimiter shared by two callers (threads) without a lock: the steps
\* of wait() are those of the single caller (the test of _last_ts together
\* with the assignment of the first call is one step), and the steps of the
\* two callers interleave freely.

RL2Call ==
    /\ rl_calls < MaxWaits
    /\ \E c \in Callers : wait_enter(c)
    /\ UNCHANGED <<ingestVars, clientVars, extVars, lateVars>>

RL2Now ==
    /\ \E c \in Callers : wait_now(c)
    /\ UNCHANGED <<ingestVars, clientVars, extVars, lateVars>>

RL2Test ==
    /\ \E c \in Callers : wait_test(c)
    /\ UNCHANGED <<ingestVars, clientVars, extVars, lateVars>>

RL2Sleep ==
    /\ \E c \in Callers : wait_sleep(c)
    /\ UNCHANGED <<ingestVars, clientVars, extVars, lateVars>>

RL2Record ==
    /\ \E c \in Callers : wait_record(c)
    /\ UNCHANGED <<ingestVars, clientVars, extVars, lateVars>>

\* Time passes between two steps of the callers.
RL2Tick ==
    /\ clock < MaxClock2
    /\ clock' = clock + MaxTick
    /\ UNCHANGED <<_last_ts, rl_pc, rl_now, rl_prev, rl_slept, rl_ret, rl_calls>>
    /\ UNCHANGED <<ingestVars, clientVars, extVars, lateVars>>

NextRL2 ==
    \/ RL2Call
    \/ RL2Now
    \/ RL2Test
    \/ RL2Sleep
    \/ RL2Record
    \/ RL2Tick

\* C25: with two callers on one limiter and no synchronization, wait() only
\* spaces a caller from the timestamp that caller itself read: a caller that
\* found a timestamp returns no earlier than min_interval_seconds after it,
\* and when the two callers were permitted less than min_interval_seconds
\* apart neither of them had read the timestamp the other recorded. (That two
\* callers are permitted that close is the reachable state C25_Witness.)
C25_SpacedFromOwnReading ==
    /\ \A c \in Callers :
          (rl_pc[c] = "ret" /\ rl_prev[c] > 0) =>
              rl_ret[c] >= rl_prev[c] + min_interval_seconds
    /\ \A c, d \in Callers :
          (/\ c # d
           /\ rl_pc[c] = "ret" /\ rl_pc[d] = "ret"
           /\ rl_prev[c] > 0 /\ rl_prev[d] > 0
           /\ rl_ret[c] - rl_ret[d] < min_interval_seconds
           /\ rl_ret[d] - rl_ret[c] < min_interval_seconds)
             => rl_prev[c] # rl_ret[d]

\* C25 witness: both callers found the same earlier timestamp, both slept and
\* both returned, less than min_interval_seconds apart.
C25_Witness ==
    /\ rl_pc[1] = "ret" /\ rl_pc[2] = "ret"
    /\ rl_slept[1] /\ rl_slept[2]
    /\ rl_prev[1] > 0 /\ rl_prev[1] = rl_prev[2]
    /\ rl_ret[1] - rl_ret[2] < min_interval_seconds
    /\ rl_ret[2] - rl_ret[1] < min_interval_seconds

\* C26: whatever sequence of ingest_extras runs has acted on the store, the
\* props table holds at most one row per (game_id, player_id, prop_type): a
\* row written for a vendor that is no longer the best one does not remain
\* beside the row of the new best vendor.
C26_OnePropPerKey ==
    \A r1, r2 \in props_table :
        (r1.game_id = r2.game_id /\ r1.player_id = r2.player_id
            /\ r1.prop_type = r2.prop_type) => r1 = r2

\* C30: when one call of ingest_extras has returned, every game went through
\* the props loop body at most once, and the reported player_props count is
\* the number of distinct rows the call upserted.
C30_PropsOncePerGame ==
    epc = "returned" =>
        /\ \A i, j \in 1..Len(props_log) :
              props_log[i].game = props_log[j].game => i = j
        /\ e_counts.player_props =
              Cardinality(UNION { props_log[i].ids : i \in 1..Len(props_log) })

-----------------------------------------------------------------------------
\* The rows the ingestion functions hand to supabase.upsert, reduced to the
\* columns of their on_conflict key. An upstream record is reduced to the
\* fields the mappers read for those columns; None is a JSON null or a
\* missing key, Absent a missing key where the mapper tells the two apart.

Absent == -2

KeyTables == {"nfl_players", "nfl_games", "nfl_player_season_stats",
              "nfl_team_standings", "nfl_injuries"}

\* on_conflict of the upsert of each table
OnConflict(tbl) ==
    CASE tbl = "nfl_players" -> {"id"}
      [] tbl = "nfl_games" -> {"id"}
      [] tbl = "nfl_player_season_stats" -> {"player_id", "season", "postseason"}
      [] tbl = "nfl_team_standings" -> {"team_id", "season"}
      [] tbl = "nfl_injuries" -> {"player_id"}

\* postseason: 0 is false
RawRecords ==
    [id : {None, 7}, player : {None, 55}, player_id : {None, 55},
     team : {None, 3}, season : {None, 2024}, postseason : {Absent, None, 0}]

\* map_player, map_game, map_player_season_stats, map_standing and map_injury
\* on the key columns
MapKeyColumn(tbl, col, raw) ==
    CASE col = "id" -> raw.id
      [] col = "season" -> raw.season
      [] col = "postseason" -> IF raw.postseason = Absent THEN 0 ELSE raw.postseason
      [] col = "team_id" -> raw.team
      [] col = "player_id" ->
            IF tbl = "nfl_injuries"
            THEN (IF raw.player # None /\ raw.player # 0 THEN raw.player ELSE raw.player_id)
            ELSE raw.player

KeysInit ==
    /\ key_tbl = "none"
    /\ key_raw = None
    /\ key_row = <<>>

\* One upstream record of one dataset is mapped and its row, in a chunk, is
\* passed to supabase.upsert.
KeyIngest ==
    /\ \E tbl \in KeyTables : \E raw \in RawRecords :
          /\ key_tbl' = tbl
          /\ key_raw' = raw
          /\ key_row' = [c \in OnConflict(tbl) |-> MapKeyColumn(tbl, c, raw)]
    /\ UNCHANGED <<ingestVars, rlVars, clientVars, extVars, injVars, playVars, cursorVars>>

NextKeys ==
    \/ KeyIngest

\* C27: every row passed to upsert has a non-null value in each column of the
\* on_conflict key of its table.
C27_KeyColumnsNonNull ==
    key_tbl # "none" => \A c \in OnConflict(key_tbl) : key_row[c] # None

-----------------------------------------------------------------------------
\* The cursors one traversal of paginate requests, against an upstream that
\* is free to hand out any next_cursor, one it handed out before included.

CursorInit ==
    /\ pg_pc = "request"
    /\ pg_cursor = None
    /\ pg_next = JNull
    /\ pg_requested = <<>>

\* payload = self._request("GET", path, params=p) with p["cursor"] = cursor
\* when cursor is not None; the response carries meta.next_cursor.
CursorRequest ==
    /\ pg_pc = "request"
    /\ Len(pg_requested) < MaxRequests
    /\ pg_requested' = Append(pg_requested, pg_cursor)
    /\ pg_next' \in CursorTokens \cup {JNull}
    /\ pg_pc' = "meta"
    /\ UNCHANGED pg_cursor
    /\ UNCHANGED <<ingestVars, rlVars, clientVars, extVars, injVars, playVars, keyVars>>

\* if not next_cursor: break
\* cursor = int(next_cursor)
CursorAdvance ==
    /\ pg_pc = "meta"
    /\ IF Truthy(pg_next)
       THEN /\ pg_cursor' = PyInt(pg_next)
            /\ pg_pc' = "request"
       ELSE /\ pg_pc' = "done"
            /\ UNCHANGED pg_cursor
    /\ UNCHANGED <<pg_next, pg_requested>>
    /\ UNCHANGED <<ingestVars, rlVars, clientVars, extVars, injVars, playVars, keyVars>>

NextCursor ==
    \/ CursorRequest
    \/ CursorAdvance

\* C29: within one traversal paginate never requests the same cursor twice,
\* also when the upstream returns a next_cursor it returned before.
C29_NoCursorTwice ==
    \A i, j \in 1..Len(pg_requested) :
        pg_requested[i] = pg_requested[j] => i = j

Init == IngestInit /\ RLInit /\ ClientInit /\ PropsInit /\ RosterInit /\ RerunInit /\ LoopInit /\ ExtrasInit /\ InjInit /\ PlaysInit /\ KeysInit /\ CursorInit

Next == IngestNext

Spec == Init /\ [][Next]_vars

SpecRL == Init /\ [][NextRL]_vars

SpecRL2 == Init /\ [][NextRL2]_vars

SpecClient == Init /\ [][NextClient]_vars

SpecProps == Init /\ [][NextProps]_vars

SpecRoster == Init /\ [][NextRoster]_vars

SpecRerun == Init /\ [][NextRerun]_vars

SpecLoop == Init /\ [][NextLoop]_vars

SpecExtras == Init /\ [][NextExtras]_vars

SpecExtrasLive == SpecExtras /\ WF_vars(NextExtras)

SpecExtrasRuns == Init /\ [][NextExtrasRuns]_vars

SpecInjuries == Init /\ [][NextInjuries]_vars

SpecPlays == Init /\ [][NextPlays]_vars

SpecKeys == Init /\ [][NextKeys]_vars

SpecCursor == Init /\ [][NextCursor]_vars

====
